---- MODULE Spec2Model ----
(***************************************************************************)
(* Hurricane prediction game backend: prediction submission, the game      *)
(* clock, the timer-driven and the manual Scoring Pass, and the badge      *)
(* evaluator, over the predictions and user_badges tables.                 *)
(*                                                                         *)
(* Time is counted in polling intervals of the scoring timer; one hour is  *)
(* PollsPerHour intervals.  Latitudes and longitudes are in tenths of a    *)
(* degree, distances in hundredths of a nautical mile.                     *)
(***************************************************************************)
EXTENDS Integers, Sequences, FiniteSets, TLC

\* ------------------------------------------------------------------ bounds
PollsPerHour == 2
MaxRows == 2
MaxPasses == 2
MaxFailures == 1

\* The process is observed from its start until one polling interval after the
\* scoring window that follows the first boundary it meets.
MaxUptime == PollsPerHour + 2

\* --------------------------------------------------------------- constants
NULL == 0 - 999999

Users == {"alice", "bob"}

Timeframes == {"0600", "1200", "1800", "0000"}

Katrina ==
  [id |-> "katrina-2005", gameStart |-> 0, gameEnd |-> 24 * PollsPerHour,
   timeframes |-> <<
     [timeframe |-> "0000", type |-> "base", lat |-> 254, lon |-> 0 - 803, windSpeed |-> 80, pressure |-> 986],
     [timeframe |-> "0600", type |-> "prediction", lat |-> 261, lon |-> 0 - 815, windSpeed |-> 100, pressure |-> 960],
     [timeframe |-> "1200", type |-> "prediction", lat |-> 272, lon |-> 0 - 834, windSpeed |-> 115, pressure |-> 950],
     [timeframe |-> "1800", type |-> "prediction", lat |-> 288, lon |-> 0 - 859, windSpeed |-> 125, pressure |-> 942],
     [timeframe |-> "0000", type |-> "prediction", lat |-> 295, lon |-> 0 - 896, windSpeed |-> 140, pressure |-> 920] >>]

Andrew ==
  [id |-> "andrew-1992", gameStart |-> 24 * PollsPerHour, gameEnd |-> 48 * PollsPerHour,
   timeframes |-> <<
     [timeframe |-> "0000", type |-> "base", lat |-> 255, lon |-> 0 - 782, windSpeed |-> 50, pressure |-> 1005],
     [timeframe |-> "0600", type |-> "prediction", lat |-> 258, lon |-> 0 - 798, windSpeed |-> 90, pressure |-> 975],
     [timeframe |-> "1200", type |-> "prediction", lat |-> 255, lon |-> 0 - 803, windSpeed |-> 145, pressure |-> 922],
     [timeframe |-> "1800", type |-> "prediction", lat |-> 261, lon |-> 0 - 812, windSpeed |-> 150, pressure |-> 920],
     [timeframe |-> "0000", type |-> "prediction", lat |-> 267, lon |-> 0 - 825, windSpeed |-> 120, pressure |-> 945] >>]

\* The schedules the process can have loaded at startup.
Schedules == { <<Katrina, Andrew>>, <<Katrina>> }

StormIds == {"katrina-2005", "andrew-1992"}

\* The instants at which the process may be started: one polling interval
\* before the game start of the first storm and before each of its four
\* checkpoint boundaries.
StartTimes == {k * 6 * PollsPerHour - 1 : k \in 0..4}

\* The forecasts a client may send (lat, lon, windSpeed, pressure).
Forecasts ==
  { [lat |-> 260, lon |-> 0 - 814, windSpeed |-> 98, pressure |-> 962],
    [lat |-> 0, lon |-> 0 - 814, windSpeed |-> 98, pressure |-> 962] }

\* The path parameters a manual scoring request may carry.
AdminStormIds == {"katrina-2005", "unknown"}

AdminTimeframes == {"0600", "9999"}

\* ------------------------------------------------------- geo & scoring math
Abs(x) == IF x < 0 THEN 0 - x ELSE x

Max(a, b) == IF a >= b THEN a ELSE b

\* Math.round on a value given in millionths.
RoundMicro(x) == (x + 500000) \div 1000000

\* The points of the model, in tenths of a degree: the forecasts, the actual
\* positions of the two storms, the position of the rows of earlier seasons
\* and two points on either side of the equator.
Points ==
  { <<260, 0 - 814>>,
    <<261, 0 - 815>>,
    <<254, 0 - 803>>,
    <<272, 0 - 834>>,
    <<288, 0 - 859>>,
    <<295, 0 - 896>>,
    <<255, 0 - 782>>,
    <<258, 0 - 798>>,
    <<255, 0 - 803>>,
    <<261, 0 - 812>>,
    <<267, 0 - 825>>,
    <<250, 0 - 900>>,
    <<0 - 100, 0 - 800>>,
    <<100, 0 - 800>> }

\* Variant: Math.cos(lat1) is squared where the formula multiplies the cosines
\* of both latitudes.
calculateDistance_CosLat1Squared(lat1, lon1, lat2, lon2) ==
  CASE lat1 = 260 /\ lon1 = -814 /\ lat2 = 260 /\ lon2 = -814 -> 0
    [] lat1 = 260 /\ lon1 = -814 /\ lat2 = 261 /\ lon2 = -815 -> 807
    [] lat1 = 260 /\ lon1 = -814 /\ lat2 = 254 /\ lon2 = -803 -> 6944
    [] lat1 = 260 /\ lon1 = -814 /\ lat2 = 272 /\ lon2 = -834 -> 12977
    [] lat1 = 260 /\ lon1 = -814 /\ lat2 = 288 /\ lon2 = -859 -> 29538
    [] lat1 = 260 /\ lon1 = -814 /\ lat2 = 295 /\ lon2 = -896 -> 48993
    [] lat1 = 260 /\ lon1 = -814 /\ lat2 = 255 /\ lon2 = -782 -> 17527
    [] lat1 = 260 /\ lon1 = -814 /\ lat2 = 258 /\ lon2 = -798 -> 8717
    [] lat1 = 260 /\ lon1 = -814 /\ lat2 = 255 /\ lon2 = -803 -> 6652
    [] lat1 = 260 /\ lon1 = -814 /\ lat2 = 261 /\ lon2 = -812 -> 1235
    [] lat1 = 260 /\ lon1 = -814 /\ lat2 = 267 /\ lon2 = -825 -> 7273
    [] lat1 = 260 /\ lon1 = -814 /\ lat2 = 250 /\ lon2 = -900 -> 46789
    [] lat1 = 260 /\ lon1 = -814 /\ lat2 = -100 /\ lon2 = -800 -> 216287
    [] lat1 = 260 /\ lon1 = -814 /\ lat2 = 100 /\ lon2 = -800 -> 96365
    [] lat1 = 261 /\ lon1 = -815 /\ lat2 = 260 /\ lon2 = -814 -> 807
    [] lat1 = 261 /\ lon1 = -815 /\ lat2 = 261 /\ lon2 = -815 -> 0
    [] lat1 = 261 /\ lon1 = -815 /\ lat2 = 254 /\ lon2 = -803 -> 7715
    [] lat1 = 261 /\ lon1 = -815 /\ lat2 = 272 /\ lon2 = -834 -> 12189
    [] lat1 = 261 /\ lon1 = -815 /\ lat2 = 288 /\ lon2 = -859 -> 28736
    [] lat1 = 261 /\ lon1 = -815 /\ lat2 = 295 /\ lon2 = -896 -> 48214
    [] lat1 = 261 /\ lon1 = -815 /\ lat2 = 255 /\ lon2 = -782 -> 18154
    [] lat1 = 261 /\ lon1 = -815 /\ lat2 = 258 /\ lon2 = -798 -> 9341
    [] lat1 = 261 /\ lon1 = -815 /\ lat2 = 255 /\ lon2 = -803 -> 7405
    [] lat1 = 261 /\ lon1 = -815 /\ lat2 = 261 /\ lon2 = -812 -> 1618
    [] lat1 = 261 /\ lon1 = -815 /\ lat2 = 267 /\ lon2 = -825 -> 6485
    [] lat1 = 261 /\ lon1 = -815 /\ lat2 = 250 /\ lon2 = -900 -> 46297
    [] lat1 = 261 /\ lon1 = -815 /\ lat2 = -100 /\ lon2 = -800 -> 216907
    [] lat1 = 261 /\ lon1 = -815 /\ lat2 = 100 /\ lon2 = -800 -> 97007
    [] lat1 = 254 /\ lon1 = -803 /\ lat2 = 260 /\ lon2 = -814 -> 6969
    [] lat1 = 254 /\ lon1 = -803 /\ lat2 = 261 /\ lon2 = -815 -> 7748
    [] lat1 = 254 /\ lon1 = -803 /\ lat2 = 254 /\ lon2 = -803 -> 0
    [] lat1 = 254 /\ lon1 = -803 /\ lat2 = 272 /\ lon2 = -834 -> 19988
    [] lat1 = 254 /\ lon1 = -803 /\ lat2 = 288 /\ lon2 = -859 -> 36601
    [] lat1 = 254 /\ lon1 = -803 /\ lat2 = 295 /\ lon2 = -896 -> 56137
    [] lat1 = 254 /\ lon1 = -803 /\ lat2 = 255 /\ lon2 = -782 -> 11405
    [] lat1 = 254 /\ lon1 = -803 /\ lat2 = 258 /\ lon2 = -798 -> 3622
    [] lat1 = 254 /\ lon1 = -803 /\ lat2 = 255 /\ lon2 = -803 -> 600
    [] lat1 = 254 /\ lon1 = -803 /\ lat2 = 261 /\ lon2 = -812 -> 6441
    [] lat1 = 254 /\ lon1 = -803 /\ lat2 = 267 /\ lon2 = -825 -> 14259
    [] lat1 = 254 /\ lon1 = -803 /\ lat2 = 250 /\ lon2 = -900 -> 52653
    [] lat1 = 254 /\ lon1 = -803 /\ lat2 = -100 /\ lon2 = -800 -> 212550
    [] lat1 = 254 /\ lon1 = -803 /\ lat2 = 100 /\ lon2 = -800 -> 92477
    [] lat1 = 272 /\ lon1 = -834 /\ lat2 = 260 /\ lon2 = -814 -> 12883
    [] lat1 = 272 /\ lon1 = -834 /\ lat2 = 261 /\ lon2 = -815 -> 12107
    [] lat1 = 272 /\ lon1 = -834 /\ lat2 = 254 /\ lon2 = -803 -> 19771
    [] lat1 = 272 /\ lon1 = -834 /\ lat2 = 272 /\ lon2 = -834 -> 0
    [] lat1 = 272 /\ lon1 = -834 /\ lat2 = 288 /\ lon2 = -859 -> 16448
    [] lat1 = 272 /\ lon1 = -834 /\ lat2 = 295 /\ lon2 = -896 -> 35874
    [] lat1 = 272 /\ lon1 = -834 /\ lat2 = 255 /\ lon2 = -782 -> 29585
    [] lat1 = 272 /\ lon1 = -834 /\ lat2 = 258 /\ lon2 = -798 -> 20982
    [] lat1 = 272 /\ lon1 = -834 /\ lat2 = 255 /\ lon2 = -803 -> 19449
    [] lat1 = 272 /\ lon1 = -834 /\ lat2 = 261 /\ lon2 = -812 -> 13478
    [] lat1 = 272 /\ lon1 = -834 /\ lat2 = 267 /\ lon2 = -825 -> 5667
    [] lat1 = 272 /\ lon1 = -834 /\ lat2 = 250 /\ lon2 = -900 -> 37639
    [] lat1 = 272 /\ lon1 = -834 /\ lat2 = -100 /\ lon2 = -800 -> 224142
    [] lat1 = 272 /\ lon1 = -834 /\ lat2 = 100 /\ lon2 = -800 -> 104877
    [] lat1 = 288 /\ lon1 = -859 /\ lat2 = 260 /\ lon2 = -814 -> 29040
    [] lat1 = 288 /\ lon1 = -859 /\ lat2 = 261 /\ lon2 = -815 -> 28264
    [] lat1 = 288 /\ lon1 = -859 /\ lat2 = 254 /\ lon2 = -803 -> 35849
    [] lat1 = 288 /\ lon1 = -859 /\ lat2 = 272 /\ lon2 = -834 -> 16288
    [] lat1 = 288 /\ lon1 = -859 /\ lat2 = 288 /\ lon2 = -859 -> 0
    [] lat1 = 288 /\ lon1 = -859 /\ lat2 = 295 /\ lon2 = -896 -> 19915
    [] lat1 = 288 /\ lon1 = -859 /\ lat2 = 255 /\ lon2 = -782 -> 45102
    [] lat1 = 288 /\ lon1 = -859 /\ lat2 = 258 /\ lon2 = -798 -> 36807
    [] lat1 = 288 /\ lon1 = -859 /\ lat2 = 255 /\ lon2 = -803 -> 35511
    [] lat1 = 288 /\ lon1 = -859 /\ lat2 = 261 /\ lon2 = -812 -> 29571
    [] lat1 = 288 /\ lon1 = -859 /\ lat2 = 267 /\ lon2 = -825 -> 21887
    [] lat1 = 288 /\ lon1 = -859 /\ lat2 = 250 /\ lon2 = -900 -> 31403
    [] lat1 = 288 /\ lon1 = -859 /\ lat2 = -100 /\ lon2 = -800 -> 235181
    [] lat1 = 288 /\ lon1 = -859 /\ lat2 = 100 /\ lon2 = -800 -> 117141
    [] lat1 = 295 /\ lon1 = -896 /\ lat2 = 260 /\ lon2 = -814 -> 47730
    [] lat1 = 295 /\ lon1 = -896 /\ lat2 = 261 /\ lon2 = -815 -> 46997
    [] lat1 = 295 /\ lon1 = -896 /\ lat2 = 254 /\ lon2 = -803 -> 54485
    [] lat1 = 295 /\ lon1 = -896 /\ lat2 = 272 /\ lon2 = -834 -> 35220
    [] lat1 = 295 /\ lon1 = -896 /\ lat2 = 288 /\ lon2 = -859 -> 19786
    [] lat1 = 295 /\ lon1 = -896 /\ lat2 = 295 /\ lon2 = -896 -> 0
    [] lat1 = 295 /\ lon1 = -896 /\ lat2 = 255 /\ lon2 = -782 -> 64232
    [] lat1 = 295 /\ lon1 = -896 /\ lat2 = 258 /\ lon2 = -798 -> 55825
    [] lat1 = 295 /\ lon1 = -896 /\ lat2 = 255 /\ lon2 = -803 -> 54215
    [] lat1 = 295 /\ lon1 = -896 /\ lat2 = 261 /\ lon2 = -812 -> 48413
    [] lat1 = 295 /\ lon1 = -896 /\ lat2 = 267 /\ lon2 = -825 -> 40735
    [] lat1 = 295 /\ lon1 = -896 /\ lat2 = 250 /\ lon2 = -900 -> 27099
    [] lat1 = 295 /\ lon1 = -896 /\ lat2 = -100 /\ lon2 = -800 -> 242840
    [] lat1 = 295 /\ lon1 = -896 /\ lat2 = 100 /\ lon2 = -800 -> 127562
    [] lat1 = 255 /\ lon1 = -782 /\ lat2 = 260 /\ lon2 = -814 -> 17599
    [] lat1 = 255 /\ lon1 = -782 /\ lat2 = 261 /\ lon2 = -815 -> 18242
    [] lat1 = 255 /\ lon1 = -782 /\ lat2 = 254 /\ lon2 = -803 -> 11396
    [] lat1 = 255 /\ lon1 = -782 /\ lat2 = 272 /\ lon2 = -834 -> 29971
    [] lat1 = 255 /\ lon1 = -782 /\ lat2 = 288 /\ lon2 = -859 -> 46198
    [] lat1 = 255 /\ lon1 = -782 /\ lat2 = 295 /\ lon2 = -896 -> 66288
    [] lat1 = 255 /\ lon1 = -782 /\ lat2 = 255 /\ lon2 = -782 -> 0
    [] lat1 = 255 /\ lon1 = -782 /\ lat2 = 258 /\ lon2 = -798 -> 8856
    [] lat1 = 255 /\ lon1 = -782 /\ lat2 = 255 /\ lon2 = -803 -> 11380
    [] lat1 = 255 /\ lon1 = -782 /\ lat2 = 261 /\ lon2 = -812 -> 16652
    [] lat1 = 255 /\ lon1 = -782 /\ lat2 = 267 /\ lon2 = -825 -> 24391
    [] lat1 = 255 /\ lon1 = -782 /\ lat2 = 250 /\ lon2 = -900 -> 63996
    [] lat1 = 255 /\ lon1 = -782 /\ lat2 = -100 /\ lon2 = -800 -> 213382
    [] lat1 = 255 /\ lon1 = -782 /\ lat2 = 100 /\ lon2 = -800 -> 93579
    [] lat1 = 258 /\ lon1 = -798 /\ lat2 = 260 /\ lon2 = -814 -> 8732
    [] lat1 = 258 /\ lon1 = -798 /\ lat2 = 261 /\ lon2 = -815 -> 9364
    [] lat1 = 258 /\ lon1 = -798 /\ lat2 = 254 /\ lon2 = -803 -> 3616
    [] lat1 = 258 /\ lon1 = -798 /\ lat2 = 272 /\ lon2 = -834 -> 21198
    [] lat1 = 258 /\ lon1 = -798 /\ lat2 = 288 /\ lon2 = -859 -> 37577
    [] lat1 = 258 /\ lon1 = -798 /\ lat2 = 295 /\ lon2 = -896 -> 57450
    [] lat1 = 258 /\ lon1 = -798 /\ lat2 = 255 /\ lon2 = -782 -> 8834
    [] lat1 = 258 /\ lon1 = -798 /\ lat2 = 258 /\ lon2 = -798 -> 0
    [] lat1 = 258 /\ lon1 = -798 /\ lat2 = 255 /\ lon2 = -803 -> 3248
    [] lat1 = 258 /\ lon1 = -798 /\ lat2 = 261 /\ lon2 = -812 -> 7779
    [] lat1 = 258 /\ lon1 = -798 /\ lat2 = 267 /\ lon2 = -825 -> 15563
    [] lat1 = 258 /\ lon1 = -798 /\ lat2 = 250 /\ lon2 = -900 -> 55333
    [] lat1 = 258 /\ lon1 = -798 /\ lat2 = -100 /\ lon2 = -800 -> 214948
    [] lat1 = 258 /\ lon1 = -798 /\ lat2 = 100 /\ lon2 = -800 -> 94870
    [] lat1 = 255 /\ lon1 = -803 /\ lat2 = 260 /\ lon2 = -814 -> 6674
    [] lat1 = 255 /\ lon1 = -803 /\ lat2 = 261 /\ lon2 = -815 -> 7434
    [] lat1 = 255 /\ lon1 = -803 /\ lat2 = 254 /\ lon2 = -803 -> 600
    [] lat1 = 255 /\ lon1 = -803 /\ lat2 = 272 /\ lon2 = -834 -> 19658
    [] lat1 = 255 /\ lon1 = -803 /\ lat2 = 288 /\ lon2 = -859 -> 36248
    [] lat1 = 255 /\ lon1 = -803 /\ lat2 = 295 /\ lon2 = -896 -> 55837
    [] lat1 = 255 /\ lon1 = -803 /\ lat2 = 255 /\ lon2 = -782 -> 11380
    [] lat1 = 255 /\ lon1 = -803 /\ lat2 = 258 /\ lon2 = -798 -> 3254
    [] lat1 = 255 /\ lon1 = -803 /\ lat2 = 255 /\ lon2 = -803 -> 0
    [] lat1 = 255 /\ lon1 = -803 /\ lat2 = 261 /\ lon2 = -812 -> 6063
    [] lat1 = 255 /\ lon1 = -803 /\ lat2 = 267 /\ lon2 = -825 -> 13930
    [] lat1 = 255 /\ lon1 = -803 /\ lat2 = 250 /\ lon2 = -900 -> 52640
    [] lat1 = 255 /\ lon1 = -803 /\ lat2 = -100 /\ lon2 = -800 -> 213150
    [] lat1 = 255 /\ lon1 = -803 /\ lat2 = 100 /\ lon2 = -800 -> 93077
    [] lat1 = 261 /\ lon1 = -812 /\ lat2 = 260 /\ lon2 = -814 -> 1234
    [] lat1 = 261 /\ lon1 = -812 /\ lat2 = 261 /\ lon2 = -815 -> 1618
    [] lat1 = 261 /\ lon1 = -812 /\ lat2 = 254 /\ lon2 = -803 -> 6420
    [] lat1 = 261 /\ lon1 = -812 /\ lat2 = 272 /\ lon2 = -834 -> 13577
    [] lat1 = 261 /\ lon1 = -812 /\ lat2 = 288 /\ lon2 = -859 -> 30086
    [] lat1 = 261 /\ lon1 = -812 /\ lat2 = 295 /\ lon2 = -896 -> 49684
    [] lat1 = 261 /\ lon1 = -812 /\ lat2 = 255 /\ lon2 = -782 -> 16571
    [] lat1 = 261 /\ lon1 = -812 /\ lat2 = 258 /\ lon2 = -798 -> 7760
    [] lat1 = 261 /\ lon1 = -812 /\ lat2 = 255 /\ lon2 = -803 -> 6044
    [] lat1 = 261 /\ lon1 = -812 /\ lat2 = 261 /\ lon2 = -812 -> 0
    [] lat1 = 261 /\ lon1 = -812 /\ lat2 = 267 /\ lon2 = -825 -> 7881
    [] lat1 = 261 /\ lon1 = -812 /\ lat2 = 250 /\ lon2 = -900 -> 47898
    [] lat1 = 261 /\ lon1 = -812 /\ lat2 = -100 /\ lon2 = -800 -> 216849
    [] lat1 = 261 /\ lon1 = -812 /\ lat2 = 100 /\ lon2 = -800 -> 96884
    [] lat1 = 267 /\ lon1 = -825 /\ lat2 = 260 /\ lon2 = -814 -> 7244
    [] lat1 = 267 /\ lon1 = -825 /\ lat2 = 261 /\ lon2 = -815 -> 6461
    [] lat1 = 267 /\ lon1 = -825 /\ lat2 = 254 /\ lon2 = -803 -> 14149
    [] lat1 = 267 /\ lon1 = -825 /\ lat2 = 272 /\ lon2 = -834 -> 5685
    [] lat1 = 267 /\ lon1 = -825 /\ lat2 = 288 /\ lon2 = -859 -> 22172
    [] lat1 = 267 /\ lon1 = -825 /\ lat2 = 295 /\ lon2 = -896 -> 41631
    [] lat1 = 267 /\ lon1 = -825 /\ lat2 = 255 /\ lon2 = -782 -> 24163
    [] lat1 = 267 /\ lon1 = -825 /\ lat2 = 258 /\ lon2 = -798 -> 15458
    [] lat1 = 267 /\ lon1 = -825 /\ lat2 = 255 /\ lon2 = -803 -> 13826
    [] lat1 = 267 /\ lon1 = -825 /\ lat2 = 261 /\ lon2 = -812 -> 7849
    [] lat1 = 267 /\ lon1 = -825 /\ lat2 = 267 /\ lon2 = -825 -> 0
    [] lat1 = 267 /\ lon1 = -825 /\ lat2 = 250 /\ lon2 = -900 -> 41501
    [] lat1 = 267 /\ lon1 = -825 /\ lat2 = -100 /\ lon2 = -800 -> 220785
    [] lat1 = 267 /\ lon1 = -825 /\ lat2 = 100 /\ lon2 = -800 -> 101173
    [] lat1 = 250 /\ lon1 = -900 /\ lat2 = 260 /\ lon2 = -814 -> 47174
    [] lat1 = 250 /\ lon1 = -900 /\ lat2 = 261 /\ lon2 = -815 -> 46716
    [] lat1 = 250 /\ lon1 = -900 /\ lat2 = 254 /\ lon2 = -803 -> 52826
    [] lat1 = 250 /\ lon1 = -900 /\ lat2 = 272 /\ lon2 = -834 -> 38267
    [] lat1 = 250 /\ lon1 = -900 /\ lat2 = 288 /\ lon2 = -859 -> 31916
    [] lat1 = 250 /\ lon1 = -900 /\ lat2 = 295 /\ lon2 = -896 -> 27106
    [] lat1 = 250 /\ lon1 = -900 /\ lat2 = 255 /\ lon2 = -782 -> 64260
    [] lat1 = 250 /\ lon1 = -900 /\ lat2 = 258 /\ lon2 = -798 -> 55699
    [] lat1 = 250 /\ lon1 = -900 /\ lat2 = 255 /\ lon2 = -803 -> 52857
    [] lat1 = 250 /\ lon1 = -900 /\ lat2 = 261 /\ lon2 = -812 -> 48332
    [] lat1 = 250 /\ lon1 = -900 /\ lat2 = 267 /\ lon2 = -825 -> 42066
    [] lat1 = 250 /\ lon1 = -900 /\ lat2 = 250 /\ lon2 = -900 -> 0
    [] lat1 = 250 /\ lon1 = -900 /\ lat2 = -100 /\ lon2 = -800 -> 217514
    [] lat1 = 250 /\ lon1 = -900 /\ lat2 = 100 /\ lon2 = -800 -> 105379
    [] lat1 = -100 /\ lon1 = -800 /\ lat2 = 260 /\ lon2 = -814 -> 216315
    [] lat1 = -100 /\ lon1 = -800 /\ lat2 = 261 /\ lon2 = -815 -> 216940
    [] lat1 = -100 /\ lon1 = -800 /\ lat2 = 254 /\ lon2 = -803 -> 212551
    [] lat1 = -100 /\ lon1 = -800 /\ lat2 = 272 /\ lon2 = -834 -> 224320
    [] lat1 = -100 /\ lon1 = -800 /\ lat2 = 288 /\ lon2 = -859 -> 235763
    [] lat1 = -100 /\ lon1 = -800 /\ lat2 = 295 /\ lon2 = -896 -> 244413
    [] lat1 = -100 /\ lon1 = -800 /\ lat2 = 255 /\ lon2 = -782 -> 213427
    [] lat1 = -100 /\ lon1 = -800 /\ lat2 = 258 /\ lon2 = -798 -> 214948
    [] lat1 = -100 /\ lon1 = -800 /\ lat2 = 255 /\ lon2 = -803 -> 213152
    [] lat1 = -100 /\ lon1 = -800 /\ lat2 = 261 /\ lon2 = -812 -> 216870
    [] lat1 = -100 /\ lon1 = -800 /\ lat2 = 267 /\ lon2 = -825 -> 220879
    [] lat1 = -100 /\ lon1 = -800 /\ lat2 = 250 /\ lon2 = -900 -> 218823
    [] lat1 = -100 /\ lon1 = -800 /\ lat2 = -100 /\ lon2 = -800 -> 0
    [] lat1 = -100 /\ lon1 = -800 /\ lat2 = 100 /\ lon2 = -800 -> 120081
    [] lat1 = 100 /\ lon1 = -800 /\ lat2 = 260 /\ lon2 = -814 -> 96425
    [] lat1 = 100 /\ lon1 = -800 /\ lat2 = 261 /\ lon2 = -815 -> 97077
    [] lat1 = 100 /\ lon1 = -800 /\ lat2 = 254 /\ lon2 = -803 -> 92480
    [] lat1 = 100 /\ lon1 = -800 /\ lat2 = 272 /\ lon2 = -834 -> 105237
    [] lat1 = 100 /\ lon1 = -800 /\ lat2 = 288 /\ lon2 = -859 -> 118238
    [] lat1 = 100 /\ lon1 = -800 /\ lat2 = 295 /\ lon2 = -896 -> 130355
    [] lat1 = 100 /\ lon1 = -800 /\ lat2 = 255 /\ lon2 = -782 -> 93677
    [] lat1 = 100 /\ lon1 = -800 /\ lat2 = 258 /\ lon2 = -798 -> 94871
    [] lat1 = 100 /\ lon1 = -800 /\ lat2 = 255 /\ lon2 = -803 -> 93080
    [] lat1 = 100 /\ lon1 = -800 /\ lat2 = 261 /\ lon2 = -812 -> 96929
    [] lat1 = 100 /\ lon1 = -800 /\ lat2 = 267 /\ lon2 = -825 -> 101367
    [] lat1 = 100 /\ lon1 = -800 /\ lat2 = 250 /\ lon2 = -900 -> 107922
    [] lat1 = 100 /\ lon1 = -800 /\ lat2 = -100 /\ lon2 = -800 -> 120081
    [] lat1 = 100 /\ lon1 = -800 /\ lat2 = 100 /\ lon2 = -800 -> 0

\* Haversine distance in hundredths of a nautical mile, tabulated for the
\* points of the model (R = 3440.065 NM).
calculateDistance(lat1, lon1, lat2, lon2) ==
  CASE lat1 = 260 /\ lon1 = -814 /\ lat2 = 260 /\ lon2 = -814 -> 0
    [] lat1 = 260 /\ lon1 = -814 /\ lat2 = 261 /\ lon2 = -815 -> 807
    [] lat1 = 260 /\ lon1 = -814 /\ lat2 = 254 /\ lon2 = -803 -> 6956
    [] lat1 = 260 /\ lon1 = -814 /\ lat2 = 272 /\ lon2 = -834 -> 12930
    [] lat1 = 260 /\ lon1 = -814 /\ lat2 = 288 /\ lon2 = -859 -> 29287
    [] lat1 = 260 /\ lon1 = -814 /\ lat2 = 295 /\ lon2 = -896 -> 48355
    [] lat1 = 260 /\ lon1 = -814 /\ lat2 = 255 /\ lon2 = -782 -> 17563
    [] lat1 = 260 /\ lon1 = -814 /\ lat2 = 258 /\ lon2 = -798 -> 8725
    [] lat1 = 260 /\ lon1 = -814 /\ lat2 = 255 /\ lon2 = -803 -> 6663
    [] lat1 = 260 /\ lon1 = -814 /\ lat2 = 261 /\ lon2 = -812 -> 1235
    [] lat1 = 260 /\ lon1 = -814 /\ lat2 = 267 /\ lon2 = -825 -> 7259
    [] lat1 = 260 /\ lon1 = -814 /\ lat2 = 250 /\ lon2 = -900 -> 46981
    [] lat1 = 260 /\ lon1 = -814 /\ lat2 = -100 /\ lon2 = -800 -> 216300
    [] lat1 = 260 /\ lon1 = -814 /\ lat2 = 100 /\ lon2 = -800 -> 96394
    [] lat1 = 261 /\ lon1 = -815 /\ lat2 = 260 /\ lon2 = -814 -> 807
    [] lat1 = 261 /\ lon1 = -815 /\ lat2 = 261 /\ lon2 = -815 -> 0
    [] lat1 = 261 /\ lon1 = -815 /\ lat2 = 254 /\ lon2 = -803 -> 7731
    [] lat1 = 261 /\ lon1 = -815 /\ lat2 = 272 /\ lon2 = -834 -> 12148
    [] lat1 = 261 /\ lon1 = -815 /\ lat2 = 288 /\ lon2 = -859 -> 28498
    [] lat1 = 261 /\ lon1 = -815 /\ lat2 = 295 /\ lon2 = -896 -> 47600
    [] lat1 = 261 /\ lon1 = -815 /\ lat2 = 255 /\ lon2 = -782 -> 18198
    [] lat1 = 261 /\ lon1 = -815 /\ lat2 = 258 /\ lon2 = -798 -> 9353
    [] lat1 = 261 /\ lon1 = -815 /\ lat2 = 255 /\ lon2 = -803 -> 7420
    [] lat1 = 261 /\ lon1 = -815 /\ lat2 = 261 /\ lon2 = -812 -> 1618
    [] lat1 = 261 /\ lon1 = -815 /\ lat2 = 267 /\ lon2 = -825 -> 6473
    [] lat1 = 261 /\ lon1 = -815 /\ lat2 = 250 /\ lon2 = -900 -> 46506
    [] lat1 = 261 /\ lon1 = -815 /\ lat2 = -100 /\ lon2 = -800 -> 216923
    [] lat1 = 261 /\ lon1 = -815 /\ lat2 = 100 /\ lon2 = -800 -> 97040
    [] lat1 = 254 /\ lon1 = -803 /\ lat2 = 260 /\ lon2 = -814 -> 6956
    [] lat1 = 254 /\ lon1 = -803 /\ lat2 = 261 /\ lon2 = -815 -> 7731
    [] lat1 = 254 /\ lon1 = -803 /\ lat2 = 254 /\ lon2 = -803 -> 0
    [] lat1 = 254 /\ lon1 = -803 /\ lat2 = 272 /\ lon2 = -834 -> 19879
    [] lat1 = 254 /\ lon1 = -803 /\ lat2 = 288 /\ lon2 = -859 -> 36221
    [] lat1 = 254 /\ lon1 = -803 /\ lat2 = 295 /\ lon2 = -896 -> 55301
    [] lat1 = 254 /\ lon1 = -803 /\ lat2 = 255 /\ lon2 = -782 -> 11401
    [] lat1 = 254 /\ lon1 = -803 /\ lat2 = 258 /\ lon2 = -798 -> 3619
    [] lat1 = 254 /\ lon1 = -803 /\ lat2 = 255 /\ lon2 = -803 -> 600
    [] lat1 = 254 /\ lon1 = -803 /\ lat2 = 261 /\ lon2 = -812 -> 6431
    [] lat1 = 254 /\ lon1 = -803 /\ lat2 = 267 /\ lon2 = -825 -> 14203
    [] lat1 = 254 /\ lon1 = -803 /\ lat2 = 250 /\ lon2 = -900 -> 52740
    [] lat1 = 254 /\ lon1 = -803 /\ lat2 = -100 /\ lon2 = -800 -> 212550
    [] lat1 = 254 /\ lon1 = -803 /\ lat2 = 100 /\ lon2 = -800 -> 92478
    [] lat1 = 272 /\ lon1 = -834 /\ lat2 = 260 /\ lon2 = -814 -> 12930
    [] lat1 = 272 /\ lon1 = -834 /\ lat2 = 261 /\ lon2 = -815 -> 12148
    [] lat1 = 272 /\ lon1 = -834 /\ lat2 = 254 /\ lon2 = -803 -> 19879
    [] lat1 = 272 /\ lon1 = -834 /\ lat2 = 272 /\ lon2 = -834 -> 0
    [] lat1 = 272 /\ lon1 = -834 /\ lat2 = 288 /\ lon2 = -859 -> 16368
    [] lat1 = 272 /\ lon1 = -834 /\ lat2 = 295 /\ lon2 = -896 -> 35545
    [] lat1 = 272 /\ lon1 = -834 /\ lat2 = 255 /\ lon2 = -782 -> 29777
    [] lat1 = 272 /\ lon1 = -834 /\ lat2 = 258 /\ lon2 = -798 -> 21090
    [] lat1 = 272 /\ lon1 = -834 /\ lat2 = 255 /\ lon2 = -803 -> 19553
    [] lat1 = 272 /\ lon1 = -834 /\ lat2 = 261 /\ lon2 = -812 -> 13527
    [] lat1 = 272 /\ lon1 = -834 /\ lat2 = 267 /\ lon2 = -825 -> 5676
    [] lat1 = 272 /\ lon1 = -834 /\ lat2 = 250 /\ lon2 = -900 -> 37951
    [] lat1 = 272 /\ lon1 = -834 /\ lat2 = -100 /\ lon2 = -800 -> 224226
    [] lat1 = 272 /\ lon1 = -834 /\ lat2 = 100 /\ lon2 = -800 -> 105048
    [] lat1 = 288 /\ lon1 = -859 /\ lat2 = 260 /\ lon2 = -814 -> 29287
    [] lat1 = 288 /\ lon1 = -859 /\ lat2 = 261 /\ lon2 = -815 -> 28498
    [] lat1 = 288 /\ lon1 = -859 /\ lat2 = 254 /\ lon2 = -803 -> 36221
    [] lat1 = 288 /\ lon1 = -859 /\ lat2 = 272 /\ lon2 = -834 -> 16368
    [] lat1 = 288 /\ lon1 = -859 /\ lat2 = 288 /\ lon2 = -859 -> 0
    [] lat1 = 288 /\ lon1 = -859 /\ lat2 = 295 /\ lon2 = -896 -> 19850
    [] lat1 = 288 /\ lon1 = -859 /\ lat2 = 255 /\ lon2 = -782 -> 45645
    [] lat1 = 288 /\ lon1 = -859 /\ lat2 = 258 /\ lon2 = -798 -> 37189
    [] lat1 = 288 /\ lon1 = -859 /\ lat2 = 255 /\ lon2 = -803 -> 35876
    [] lat1 = 288 /\ lon1 = -859 /\ lat2 = 261 /\ lon2 = -812 -> 29826
    [] lat1 = 288 /\ lon1 = -859 /\ lat2 = 267 /\ lon2 = -825 -> 22029
    [] lat1 = 288 /\ lon1 = -859 /\ lat2 = 250 /\ lon2 = -900 -> 31656
    [] lat1 = 288 /\ lon1 = -859 /\ lat2 = -100 /\ lon2 = -800 -> 235455
    [] lat1 = 288 /\ lon1 = -859 /\ lat2 = 100 /\ lon2 = -800 -> 117658
    [] lat1 = 295 /\ lon1 = -896 /\ lat2 = 260 /\ lon2 = -814 -> 48355
    [] lat1 = 295 /\ lon1 = -896 /\ lat2 = 261 /\ lon2 = -815 -> 47600
    [] lat1 = 295 /\ lon1 = -896 /\ lat2 = 254 /\ lon2 = -803 -> 55301
    [] lat1 = 295 /\ lon1 = -896 /\ lat2 = 272 /\ lon2 = -834 -> 35545
    [] lat1 = 295 /\ lon1 = -896 /\ lat2 = 288 /\ lon2 = -859 -> 19850
    [] lat1 = 295 /\ lon1 = -896 /\ lat2 = 295 /\ lon2 = -896 -> 0
    [] lat1 = 295 /\ lon1 = -896 /\ lat2 = 255 /\ lon2 = -782 -> 65249
    [] lat1 = 295 /\ lon1 = -896 /\ lat2 = 258 /\ lon2 = -798 -> 56629
    [] lat1 = 295 /\ lon1 = -896 /\ lat2 = 255 /\ lon2 = -803 -> 55017
    [] lat1 = 295 /\ lon1 = -896 /\ lat2 = 261 /\ lon2 = -812 -> 49043
    [] lat1 = 295 /\ lon1 = -896 /\ lat2 = 267 /\ lon2 = -825 -> 41180
    [] lat1 = 295 /\ lon1 = -896 /\ lat2 = 250 /\ lon2 = -900 -> 27102
    [] lat1 = 295 /\ lon1 = -896 /\ lat2 = -100 /\ lon2 = -800 -> 243579
    [] lat1 = 295 /\ lon1 = -896 /\ lat2 = 100 /\ lon2 = -800 -> 128880
    [] lat1 = 255 /\ lon1 = -782 /\ lat2 = 260 /\ lon2 = -814 -> 17563
    [] lat1 = 255 /\ lon1 = -782 /\ lat2 = 261 /\ lon2 = -815 -> 18198
    [] lat1 = 255 /\ lon1 = -782 /\ lat2 = 254 /\ lon2 = -803 -> 11401
    [] lat1 = 255 /\ lon1 = -782 /\ lat2 = 272 /\ lon2 = -834 -> 29777
    [] lat1 = 255 /\ lon1 = -782 /\ lat2 = 288 /\ lon2 = -859 -> 45645
    [] lat1 = 255 /\ lon1 = -782 /\ lat2 = 295 /\ lon2 = -896 -> 65249
    [] lat1 = 255 /\ lon1 = -782 /\ lat2 = 255 /\ lon2 = -782 -> 0
    [] lat1 = 255 /\ lon1 = -782 /\ lat2 = 258 /\ lon2 = -798 -> 8845
    [] lat1 = 255 /\ lon1 = -782 /\ lat2 = 255 /\ lon2 = -803 -> 11380
    [] lat1 = 255 /\ lon1 = -782 /\ lat2 = 261 /\ lon2 = -812 -> 16612
    [] lat1 = 255 /\ lon1 = -782 /\ lat2 = 267 /\ lon2 = -825 -> 24277
    [] lat1 = 255 /\ lon1 = -782 /\ lat2 = 250 /\ lon2 = -900 -> 64128
    [] lat1 = 255 /\ lon1 = -782 /\ lat2 = -100 /\ lon2 = -800 -> 213403
    [] lat1 = 255 /\ lon1 = -782 /\ lat2 = 100 /\ lon2 = -800 -> 93626
    [] lat1 = 258 /\ lon1 = -798 /\ lat2 = 260 /\ lon2 = -814 -> 8725
    [] lat1 = 258 /\ lon1 = -798 /\ lat2 = 261 /\ lon2 = -815 -> 9353
    [] lat1 = 258 /\ lon1 = -798 /\ lat2 = 254 /\ lon2 = -803 -> 3619
    [] lat1 = 258 /\ lon1 = -798 /\ lat2 = 272 /\ lon2 = -834 -> 21090
    [] lat1 = 258 /\ lon1 = -798 /\ lat2 = 288 /\ lon2 = -859 -> 37189
    [] lat1 = 258 /\ lon1 = -798 /\ lat2 = 295 /\ lon2 = -896 -> 56629
    [] lat1 = 258 /\ lon1 = -798 /\ lat2 = 255 /\ lon2 = -782 -> 8845
    [] lat1 = 258 /\ lon1 = -798 /\ lat2 = 258 /\ lon2 = -798 -> 0
    [] lat1 = 258 /\ lon1 = -798 /\ lat2 = 255 /\ lon2 = -803 -> 3251
    [] lat1 = 258 /\ lon1 = -798 /\ lat2 = 261 /\ lon2 = -812 -> 7770
    [] lat1 = 258 /\ lon1 = -798 /\ lat2 = 267 /\ lon2 = -825 -> 15510
    [] lat1 = 258 /\ lon1 = -798 /\ lat2 = 250 /\ lon2 = -900 -> 55515
    [] lat1 = 258 /\ lon1 = -798 /\ lat2 = -100 /\ lon2 = -800 -> 214948
    [] lat1 = 258 /\ lon1 = -798 /\ lat2 = 100 /\ lon2 = -800 -> 94871
    [] lat1 = 255 /\ lon1 = -803 /\ lat2 = 260 /\ lon2 = -814 -> 6663
    [] lat1 = 255 /\ lon1 = -803 /\ lat2 = 261 /\ lon2 = -815 -> 7420
    [] lat1 = 255 /\ lon1 = -803 /\ lat2 = 254 /\ lon2 = -803 -> 600
    [] lat1 = 255 /\ lon1 = -803 /\ lat2 = 272 /\ lon2 = -834 -> 19553
    [] lat1 = 255 /\ lon1 = -803 /\ lat2 = 288 /\ lon2 = -859 -> 35876
    [] lat1 = 255 /\ lon1 = -803 /\ lat2 = 295 /\ lon2 = -896 -> 55017
    [] lat1 = 255 /\ lon1 = -803 /\ lat2 = 255 /\ lon2 = -782 -> 11380
    [] lat1 = 255 /\ lon1 = -803 /\ lat2 = 258 /\ lon2 = -798 -> 3251
    [] lat1 = 255 /\ lon1 = -803 /\ lat2 = 255 /\ lon2 = -803 -> 0
    [] lat1 = 255 /\ lon1 = -803 /\ lat2 = 261 /\ lon2 = -812 -> 6054
    [] lat1 = 255 /\ lon1 = -803 /\ lat2 = 267 /\ lon2 = -825 -> 13878
    [] lat1 = 255 /\ lon1 = -803 /\ lat2 = 250 /\ lon2 = -900 -> 52749
    [] lat1 = 255 /\ lon1 = -803 /\ lat2 = -100 /\ lon2 = -800 -> 213151
    [] lat1 = 255 /\ lon1 = -803 /\ lat2 = 100 /\ lon2 = -800 -> 93078
    [] lat1 = 261 /\ lon1 = -812 /\ lat2 = 260 /\ lon2 = -814 -> 1235
    [] lat1 = 261 /\ lon1 = -812 /\ lat2 = 261 /\ lon2 = -815 -> 1618
    [] lat1 = 261 /\ lon1 = -812 /\ lat2 = 254 /\ lon2 = -803 -> 6431
    [] lat1 = 261 /\ lon1 = -812 /\ lat2 = 272 /\ lon2 = -834 -> 13527
    [] lat1 = 261 /\ lon1 = -812 /\ lat2 = 288 /\ lon2 = -859 -> 29826
    [] lat1 = 261 /\ lon1 = -812 /\ lat2 = 295 /\ lon2 = -896 -> 49043
    [] lat1 = 261 /\ lon1 = -812 /\ lat2 = 255 /\ lon2 = -782 -> 16612
    [] lat1 = 261 /\ lon1 = -812 /\ lat2 = 258 /\ lon2 = -798 -> 7770
    [] lat1 = 261 /\ lon1 = -812 /\ lat2 = 255 /\ lon2 = -803 -> 6054
    [] lat1 = 261 /\ lon1 = -812 /\ lat2 = 261 /\ lon2 = -812 -> 0
    [] lat1 = 261 /\ lon1 = -812 /\ lat2 = 267 /\ lon2 = -825 -> 7865
    [] lat1 = 261 /\ lon1 = -812 /\ lat2 = 250 /\ lon2 = -900 -> 48114
    [] lat1 = 261 /\ lon1 = -812 /\ lat2 = -100 /\ lon2 = -800 -> 216859
    [] lat1 = 261 /\ lon1 = -812 /\ lat2 = 100 /\ lon2 = -800 -> 96905
    [] lat1 = 267 /\ lon1 = -825 /\ lat2 = 260 /\ lon2 = -814 -> 7259
    [] lat1 = 267 /\ lon1 = -825 /\ lat2 = 261 /\ lon2 = -815 -> 6473
    [] lat1 = 267 /\ lon1 = -825 /\ lat2 = 254 /\ lon2 = -803 -> 14203
    [] lat1 = 267 /\ lon1 = -825 /\ lat2 = 272 /\ lon2 = -834 -> 5676
    [] lat1 = 267 /\ lon1 = -825 /\ lat2 = 288 /\ lon2 = -859 -> 22029
    [] lat1 = 267 /\ lon1 = -825 /\ lat2 = 295 /\ lon2 = -896 -> 41180
    [] lat1 = 267 /\ lon1 = -825 /\ lat2 = 255 /\ lon2 = -782 -> 24277
    [] lat1 = 267 /\ lon1 = -825 /\ lat2 = 258 /\ lon2 = -798 -> 15510
    [] lat1 = 267 /\ lon1 = -825 /\ lat2 = 255 /\ lon2 = -803 -> 13878
    [] lat1 = 267 /\ lon1 = -825 /\ lat2 = 261 /\ lon2 = -812 -> 7865
    [] lat1 = 267 /\ lon1 = -825 /\ lat2 = 267 /\ lon2 = -825 -> 0
    [] lat1 = 267 /\ lon1 = -825 /\ lat2 = 250 /\ lon2 = -900 -> 41782
    [] lat1 = 267 /\ lon1 = -825 /\ lat2 = -100 /\ lon2 = -800 -> 220830
    [] lat1 = 267 /\ lon1 = -825 /\ lat2 = 100 /\ lon2 = -800 -> 101265
    [] lat1 = 250 /\ lon1 = -900 /\ lat2 = 260 /\ lon2 = -814 -> 46981
    [] lat1 = 250 /\ lon1 = -900 /\ lat2 = 261 /\ lon2 = -815 -> 46506
    [] lat1 = 250 /\ lon1 = -900 /\ lat2 = 254 /\ lon2 = -803 -> 52740
    [] lat1 = 250 /\ lon1 = -900 /\ lat2 = 272 /\ lon2 = -834 -> 37951
    [] lat1 = 250 /\ lon1 = -900 /\ lat2 = 288 /\ lon2 = -859 -> 31656
    [] lat1 = 250 /\ lon1 = -900 /\ lat2 = 295 /\ lon2 = -896 -> 27102
    [] lat1 = 250 /\ lon1 = -900 /\ lat2 = 255 /\ lon2 = -782 -> 64128
    [] lat1 = 250 /\ lon1 = -900 /\ lat2 = 258 /\ lon2 = -798 -> 55515
    [] lat1 = 250 /\ lon1 = -900 /\ lat2 = 255 /\ lon2 = -803 -> 52749
    [] lat1 = 250 /\ lon1 = -900 /\ lat2 = 261 /\ lon2 = -812 -> 48114
    [] lat1 = 250 /\ lon1 = -900 /\ lat2 = 267 /\ lon2 = -825 -> 41782
    [] lat1 = 250 /\ lon1 = -900 /\ lat2 = 250 /\ lon2 = -900 -> 0
    [] lat1 = 250 /\ lon1 = -900 /\ lat2 = -100 /\ lon2 = -800 -> 218142
    [] lat1 = 250 /\ lon1 = -900 /\ lat2 = 100 /\ lon2 = -800 -> 106605
    [] lat1 = -100 /\ lon1 = -800 /\ lat2 = 260 /\ lon2 = -814 -> 216300
    [] lat1 = -100 /\ lon1 = -800 /\ lat2 = 261 /\ lon2 = -815 -> 216923
    [] lat1 = -100 /\ lon1 = -800 /\ lat2 = 254 /\ lon2 = -803 -> 212550
    [] lat1 = -100 /\ lon1 = -800 /\ lat2 = 272 /\ lon2 = -834 -> 224226
    [] lat1 = -100 /\ lon1 = -800 /\ lat2 = 288 /\ lon2 = -859 -> 235455
    [] lat1 = -100 /\ lon1 = -800 /\ lat2 = 295 /\ lon2 = -896 -> 243579
    [] lat1 = -100 /\ lon1 = -800 /\ lat2 = 255 /\ lon2 = -782 -> 213403
    [] lat1 = -100 /\ lon1 = -800 /\ lat2 = 258 /\ lon2 = -798 -> 214948
    [] lat1 = -100 /\ lon1 = -800 /\ lat2 = 255 /\ lon2 = -803 -> 213151
    [] lat1 = -100 /\ lon1 = -800 /\ lat2 = 261 /\ lon2 = -812 -> 216859
    [] lat1 = -100 /\ lon1 = -800 /\ lat2 = 267 /\ lon2 = -825 -> 220830
    [] lat1 = -100 /\ lon1 = -800 /\ lat2 = 250 /\ lon2 = -900 -> 218142
    [] lat1 = -100 /\ lon1 = -800 /\ lat2 = -100 /\ lon2 = -800 -> 0
    [] lat1 = -100 /\ lon1 = -800 /\ lat2 = 100 /\ lon2 = -800 -> 120081
    [] lat1 = 100 /\ lon1 = -800 /\ lat2 = 260 /\ lon2 = -814 -> 96394
    [] lat1 = 100 /\ lon1 = -800 /\ lat2 = 261 /\ lon2 = -815 -> 97040
    [] lat1 = 100 /\ lon1 = -800 /\ lat2 = 254 /\ lon2 = -803 -> 92478
    [] lat1 = 100 /\ lon1 = -800 /\ lat2 = 272 /\ lon2 = -834 -> 105048
    [] lat1 = 100 /\ lon1 = -800 /\ lat2 = 288 /\ lon2 = -859 -> 117658
    [] lat1 = 100 /\ lon1 = -800 /\ lat2 = 295 /\ lon2 = -896 -> 128880
    [] lat1 = 100 /\ lon1 = -800 /\ lat2 = 255 /\ lon2 = -782 -> 93626
    [] lat1 = 100 /\ lon1 = -800 /\ lat2 = 258 /\ lon2 = -798 -> 94871
    [] lat1 = 100 /\ lon1 = -800 /\ lat2 = 255 /\ lon2 = -803 -> 93078
    [] lat1 = 100 /\ lon1 = -800 /\ lat2 = 261 /\ lon2 = -812 -> 96905
    [] lat1 = 100 /\ lon1 = -800 /\ lat2 = 267 /\ lon2 = -825 -> 101265
    [] lat1 = 100 /\ lon1 = -800 /\ lat2 = 250 /\ lon2 = -900 -> 106605
    [] lat1 = 100 /\ lon1 = -800 /\ lat2 = -100 /\ lon2 = -800 -> 120081
    [] lat1 = 100 /\ lon1 = -800 /\ lat2 = 100 /\ lon2 = -800 -> 0

\* 1000 * exp(-0.01 * k) in millionths, for whole k = 0 .. 800 nautical miles.
TrackDecayNM ==
  <<1000000000, 990049834, 980198673, 970445534, 960789439, 951229425,
     941764534, 932393820, 923116346, 913931185, 904837418, 895834135,
     886920437, 878095431, 869358235, 860707976, 852143789, 843664817,
     835270211, 826959134, 818730753, 810584246, 802518798, 794533603,
     786627861, 778800783, 771051586, 763379494, 755783741, 748263568,
     740818221, 733446956, 726149037, 718923733, 711770323, 704688090,
     697676326, 690734331, 683861409, 677056874, 670320046, 663650250,
     657046820, 650509095, 644036421, 637628152, 631283646, 625002268,
     618783392, 612626394, 606530660, 600495579, 594520548, 588604970,
     582748252, 576949810, 571209064, 565525439, 559898367, 554327285,
     548811636, 543350869, 537944438, 532591801, 527292424, 522045777,
     516851334, 511708578, 506616992, 501576069, 496585304, 491644197,
     486752256, 481908990, 477113916, 472366553, 467666427, 463013068,
     458406011, 453844795, 449328964, 444858066, 440431655, 436049286,
     431710523, 427414932, 423162082, 418951549, 414782912, 410655753,
     406569660, 402524224, 398519041, 394553710, 390627835, 386741023,
     382892886, 379083038, 375311099, 371576691, 367879441, 364218980,
     360594940, 357006961, 353454682, 349937749, 346455810, 343008517,
     339595526, 336216494, 332871084, 329558961, 326279795, 323033256,
     319819022, 316636769, 313486181, 310366941, 307278739, 304221264,
     301194212, 298197279, 295230167, 292292578, 289384218, 286504797,
     283654026, 280831622, 278037300, 275270783, 272531793, 269820056,
     267135302, 264477261, 261845669, 259240261, 256660777, 254106960,
     251578553, 249075305, 246596964, 244143283, 241714017, 239308922,
     236927759, 234570288, 232236275, 229925485, 227637688, 225372656,
     223130160, 220909978, 218711887, 216535667, 214381101, 212247974,
     210136071, 208045182, 205975098, 203925612, 201896518, 199887614,
     197898699, 195929574, 193980042, 192049909, 190138980, 188247066,
     186373976, 184519524, 182683524, 180865793, 179066148, 177284410,
     175520401, 173773943, 172044864, 170332989, 168638147, 166960170,
     165298888, 163654137, 162025751, 160413568, 158817426, 157237166,
     155672630, 154123662, 152590106, 151071809, 149568619, 148080387,
     146606962, 145148198, 143703950, 142274072, 140858421, 139456856,
     138069237, 136695425, 135335283, 133988675, 132655465, 131335521,
     130028711, 128734904, 127453970, 126185782, 124930212, 123687136,
     122456428, 121237966, 120031629, 118837294, 117654843, 116484158,
     115325121, 114177617, 113041531, 111916749, 110803158, 109700649,
     108609109, 107528430, 106458504, 105399225, 104350485, 103312180,
     102284207, 101266462, 100258844, 99261252, 98273586, 97295747,
     96327638, 95369162, 94420223, 93480726, 92550578, 91629684,
     90717953, 89815295, 88921617, 88036833, 87160851, 86293586,
     85434951, 84584859, 83743226, 82909967, 82084999, 81268239,
     80459607, 79659020, 78866400, 78081666, 77304740, 76535545,
     75774004, 75020040, 74273578, 73534544, 72802863, 72078462,
     71361270, 70651213, 69948222, 69252225, 68563154, 67880939,
     67205513, 66536807, 65874754, 65219290, 64570347, 63927861,
     63291768, 62662005, 62038507, 61421214, 60810063, 60204992,
     59605943, 59012854, 58425666, 57844321, 57268760, 56698927,
     56134763, 55576213, 55023220, 54475730, 53933687, 53397038,
     52865729, 52339706, 51818917, 51303310, 50792834, 50287437,
     49787068, 49291679, 48801218, 48315638, 47834889, 47358924,
     46887695, 46421155, 45959257, 45501954, 45049202, 44600955,
     44157168, 43717797, 43282798, 42852127, 42425741, 42003598,
     41585655, 41171871, 40762204, 40356613, 39955058, 39557499,
     39163895, 38774208, 38388398, 38006427, 37628257, 37253849,
     36883167, 36516174, 36152832, 35793105, 35436958, 35084354,
     34735259, 34389637, 34047455, 33708677, 33373270, 33041200,
     32712435, 32386941, 32064685, 31745636, 31429762, 31117031,
     30807411, 30500872, 30197383, 29896914, 29599435, 29304916,
     29013327, 28724640, 28438825, 28155854, 27875698, 27598330,
     27323722, 27051847, 26782676, 26516184, 26252344, 25991129,
     25732513, 25476470, 25222975, 24972002, 24723526, 24477523,
     24233968, 23992836, 23754103, 23517746, 23283740, 23052063,
     22822691, 22595602, 22370772, 22148179, 21927801, 21709616,
     21493601, 21279736, 21068000, 20858369, 20650825, 20445346,
     20241911, 20040501, 19841095, 19643673, 19448215, 19254702,
     19063114, 18873433, 18685639, 18499714, 18315639, 18133395,
     17952965, 17774330, 17597472, 17422375, 17249019, 17077389,
     16907466, 16739234, 16572675, 16407775, 16244514, 16082879,
     15922852, 15764416, 15607558, 15452260, 15298508, 15146285,
     14995577, 14846368, 14698645, 14552391, 14407592, 14264234,
     14122302, 13981783, 13842662, 13704925, 13568559, 13433550,
     13299884, 13167547, 13036528, 12906813, 12778388, 12651241,
     12525359, 12400729, 12277340, 12155178, 12034232, 11914490,
     11795939, 11678567, 11562363, 11447316, 11333413, 11220644,
     11108997, 10998460, 10889024, 10780676, 10673407, 10567204,
     10462059, 10357960, 10254896, 10152858, 10051836, 9951818,
     9852796, 9754759, 9657698, 9561602, 9466462, 9372270,
     9279014, 9186686, 9095277, 9004778, 8915179, 8826471,
     8738646, 8651695, 8565609, 8480380, 8395999, 8312457,
     8229747, 8147860, 8066787, 7986521, 7907054, 7828378,
     7750484, 7673365, 7597014, 7521422, 7446583, 7372488,
     7299131, 7226503, 7154598, 7083409, 7012928, 6943148,
     6874063, 6805664, 6737947, 6670903, 6604527, 6538811,
     6473748, 6409333, 6345560, 6282420, 6219909, 6158020,
     6096747, 6036083, 5976023, 5916560, 5857690, 5799405,
     5741700, 5684569, 5628006, 5572007, 5516564, 5461674,
     5407329, 5353525, 5300257, 5247518, 5195305, 5143611,
     5092431, 5041760, 4991594, 4941927, 4892754, 4844070,
     4795871, 4748151, 4700906, 4654131, 4607822, 4561973,
     4516581, 4471640, 4427147, 4383096, 4339483, 4296305,
     4253556, 4211232, 4169330, 4127844, 4086771, 4046107,
     4005848, 3965989, 3926527, 3887457, 3848776, 3810480,
     3772566, 3735028, 3697864, 3661069, 3624641, 3588575,
     3552868, 3517517, 3482517, 3447865, 3413558, 3379593,
     3345965, 3312673, 3279711, 3247077, 3214768, 3182781,
     3151112, 3119758, 3088715, 3057982, 3027555, 2997430,
     2967605, 2938077, 2908843, 2879899, 2851244, 2822873,
     2794785, 2766977, 2739445, 2712187, 2685200, 2658482,
     2632030, 2605841, 2579912, 2554241, 2528826, 2503664,
     2478752, 2454088, 2429670, 2405494, 2381559, 2357862,
     2334401, 2311173, 2288177, 2265409, 2242868, 2220551,
     2198456, 2176581, 2154924, 2133482, 2112253, 2091236,
     2070428, 2049827, 2029431, 2009237, 1989245, 1969452,
     1949856, 1930454, 1911246, 1892229, 1873401, 1854760,
     1836305, 1818033, 1799944, 1782034, 1764302, 1746747,
     1729367, 1712159, 1695123, 1678256, 1661557, 1645025,
     1628656, 1612451, 1596407, 1580522, 1564796, 1549226,
     1533811, 1518549, 1503439, 1488480, 1473669, 1459006,
     1444488, 1430116, 1415886, 1401797, 1387849, 1374040,
     1360368, 1346832, 1333431, 1320163, 1307027, 1294022,
     1281146, 1268399, 1255778, 1243283, 1230912, 1218664,
     1206538, 1194533, 1182647, 1170880, 1159229, 1147695,
     1136275, 1124969, 1113775, 1102693, 1091721, 1080858,
     1070103, 1059456, 1048914, 1038477, 1028144, 1017914,
     1007785, 997758, 987830, 978001, 968270, 958635,
     949097, 939653, 930303, 921047, 911882, 902809,
     893825, 884932, 876127, 867409, 858778, 850233,
     841773, 833397, 825105, 816895, 808767, 800719,
     792752, 784864, 777055, 769323, 761668, 754089,
     746586, 739157, 731802, 724521, 717312, 710174,
     703108, 696112, 689186, 682328, 675539, 668817,
     662162, 655574, 649051, 642592, 636198, 629868,
     623601, 617396, 611253, 605171, 599149, 593188,
     587285, 581442, 575656, 569928, 564257, 558643,
     553084, 547581, 542133, 536738, 531398, 526110,
     520875, 515692, 510561, 505481, 500451, 495472,
     490542, 485661, 480828, 476044, 471307, 466618,
     461975, 457378, 452827, 448321, 443861, 439444,
     435072, 430743, 426457, 422213, 418012, 413853,
     409735, 405658, 401622, 397625, 393669, 389752,
     385874, 382034, 378233, 374470, 370744, 367055,
     363402, 359786, 356206, 352662, 349153, 345679,
     342239, 338834, 335463 >>

\* 1000 * exp(-0.01 * d) in millionths, d in hundredths of a nautical mile.
TrackDecay(d) ==
  CASE d % 100 = 0 /\ d \div 100 < Len(TrackDecayNM) -> TrackDecayNM[(d \div 100) + 1]
    [] d = 807 -> 922470391
    [] d = 1235 -> 883821641
    [] d = 1618 -> 850611310
    [] d = 6473 -> 523457205
    [] d = 6663 -> 513605406
    [] d = 6956 -> 498775093
    [] d = 7259 -> 483888873
    [] d = 7420 -> 476160641
    [] d = 7731 -> 461579950
    [] d = 8725 -> 417905479
    [] d = 9353 -> 392468107
    [] d = 12148 -> 296769362
    [] d = 12930 -> 274446208
    [] d = 17563 -> 172682609
    [] d = 18198 -> 162058159
    [] d = 28498 -> 57855891
    [] d = 29287 -> 53466499
    [] d = 47600 -> 8565609
    [] d = 48355 -> 7942716

\* Variant: the decay starts from 999 points.
calculateTrackScore_From999(distanceErrorNM) ==
  RoundMicro(Max(0, TrackDecay(distanceErrorNM) - 1000000))

calculateTrackScore(distanceErrorNM) ==
  RoundMicro(Max(0, TrackDecay(distanceErrorNM)))

\* 600 * exp(-0.02 * w) in millionths, for w = 0 .. 60.
WindDecay ==
  << 600000000, 588119204, 576473663, 565058720, 553869808, 542902451,
     532152262, 521614941, 511286273, 501162127, 491238452, 481511279,
     471976717, 462630951, 453470245, 444490932, 435689422, 427062194,
     418605796, 410316846, 402192028, 394228092, 386421853, 378770187,
     371270035, 363918396, 356712329, 349648951, 342725438, 335939020,
     329286982, 322766663, 316375454, 310110801, 303970195, 297951182,
     292051354, 286268349, 280599856, 275043607, 269597378, 264258993,
     259026314, 253897249, 248869747, 243941796, 239111425, 234376701,
     229735732, 225186659, 220727665, 216356964, 212072809, 207873486,
     203757315, 199722650, 195767877, 191891413, 188091709, 184367243,
     180716527 >>

\* Variant: the pressure term decays at the wind's rate, 400 * exp(-0.02 * p).
PressureDecay_WindRate == [p \in DOMAIN WindDecay |-> (WindDecay[p] * 2) \div 3]

\* 400 * exp(-0.05 * p) in millionths, for p = 0 .. 60.
PressureDecay ==
  << 400000000, 380491770, 361934967, 344283191, 327492301, 311520313,
     296327288, 281875236, 268128018, 255051261, 242612264, 230779924,
     219524654, 208818311, 198634122, 188946621, 179731586, 170965973,
     162627864, 154696409, 147151776, 139975100, 133148433, 126654708,
     120477685, 114601919, 109012717, 103696104, 98638786, 93828115,
     89252064, 84899190, 80758607, 76819963, 73073410, 69509577,
     66119555, 62894867, 59827448, 56909629, 54134113, 51493961,
     48982571, 46593663, 44321263, 42159690, 40103537, 38147665,
     36287181, 34517435, 32833999, 31232666, 29709431, 28260485,
     26882205, 25571144, 24324025, 23137728, 22009288, 20935882,
     19914827 >>

\* Variant: Math.max(0, pressureError) where the formula takes the absolute value.
calculateIntensityScore_ClampedPressure(windError, pressureError) ==
  LET windScore == WindDecay[Abs(windError) + 1]
      pressureScore == PressureDecay[Max(0, pressureError) + 1]
      totalScore == windScore + pressureScore
  IN  RoundMicro(Max(0, totalScore))

calculateIntensityScore(windError, pressureError) ==
  LET windScore == WindDecay[Abs(windError) + 1]
      pressureScore == PressureDecay[Abs(pressureError) + 1]
      totalScore == windScore + pressureScore
  IN  RoundMicro(Max(0, totalScore))

\* ------------------------------------------------------------------- state
VARIABLES
  now,                \* the wall clock, in polling intervals
  uptime,             \* polling intervals elapsed since the process started
  HISTORICAL_STORMS,  \* the schedule loaded at startup
  predictions,        \* table predictions: row id -> row
  user_badges,        \* table user_badges: sequence of award rows
  inflight,           \* accepted submissions whose INSERT is awaited
  passes,             \* the running scorePredictions calls, by slot
  response,           \* the HTTP response sent by the last step, if it sent one
  errorLog,           \* the number of console.error lines written so far
  writes,             \* history: per row id, the score UPDATEs applied
  evals,              \* history: per row id, the checkAndAwardBadges calls
  invoked,            \* history: per (storm, timeframe), passes started by the timer
  call                \* the game-logic function under evaluation: name, arguments, result

vars == <<now, uptime, HISTORICAL_STORMS, predictions, user_badges, inflight, passes,
          response, errorLog, writes, evals, invoked, call>>

NoResponse == [endpoint |-> "none", status |-> 0]

\* No game-logic function is under evaluation.
NoCall == [fn |-> "none"]

\* --------------------------------------------------------------- game clock
NoStorm == [id |-> "null", gameStart |-> 0, gameEnd |-> 0, timeframes |-> <<>>]

NoTimeframe == "null"

\* Array.prototype.find: index of the first element satisfying P, 0 if none.
FindIndex(seq, P(_)) ==
  IF \E i \in 1..Len(seq) : P(seq[i])
  THEN CHOOSE i \in 1..Len(seq) : P(seq[i]) /\ \A j \in 1..(i - 1) : ~P(seq[j])
  ELSE 0

\* Variant: a storm's window includes its gameEnd.
getCurrentStorm_EndInclusive(storms, t) ==
  IF Len(storms) = 0 THEN NoStorm
  ELSE LET InWindow(storm) == t >= storm.gameStart /\ t <= storm.gameEnd
           i == FindIndex(storms, InWindow)
       IN  IF i # 0 THEN storms[i] ELSE storms[1]

getCurrentStorm(storms, t) ==
  IF Len(storms) = 0 THEN NoStorm
  ELSE LET InWindow(storm) == t >= storm.gameStart /\ t < storm.gameEnd
           i == FindIndex(storms, InWindow)
       IN  IF i # 0 THEN storms[i] ELSE storms[1]

\* The schedule argument of the exported getCurrentStorm: an array, or undefined.
UndefinedArray == [defined |-> FALSE, items |-> <<>>]

ArrayOf(items) == [defined |-> TRUE, items |-> items]

\* getCurrentStorm(historicalStorms, currentTime) of the game-logic module.
getCurrentStormArg(historicalStorms, currentTime) ==
  IF ~historicalStorms.defined \/ Len(historicalStorms.items) = 0 THEN NoStorm
  ELSE getCurrentStorm(historicalStorms.items, currentTime)

\* Variant: every interval of the table is closed at its upper end.
getActiveTimeframe_UpperClosed(storm, t) ==
  IF storm = NoStorm \/ "timeframes" \notin DOMAIN storm THEN NoTimeframe
  ELSE LET ticksSinceStart == t - storm.gameStart
       IN  IF ticksSinceStart < 0 THEN NoTimeframe
           ELSE IF ticksSinceStart <= 6 * PollsPerHour THEN "0600"
           ELSE IF ticksSinceStart <= 12 * PollsPerHour THEN "1200"
           ELSE IF ticksSinceStart <= 18 * PollsPerHour THEN "1800"
           ELSE IF ticksSinceStart <= 24 * PollsPerHour THEN "0000"
           ELSE NoTimeframe

getActiveTimeframe(storm, t) ==
  IF storm = NoStorm \/ "timeframes" \notin DOMAIN storm THEN NoTimeframe
  ELSE LET ticksSinceStart == t - storm.gameStart
       IN  IF ticksSinceStart < 0 THEN NoTimeframe
           ELSE IF ticksSinceStart < 6 * PollsPerHour THEN "0600"
           ELSE IF ticksSinceStart < 12 * PollsPerHour THEN "1200"
           ELSE IF ticksSinceStart < 18 * PollsPerHour THEN "1800"
           ELSE IF ticksSinceStart < 24 * PollsPerHour THEN "0000"
           ELSE NoTimeframe

\* ------------------------------------------------------------------- tables
\* Variant: the SELECT lacks the condition score IS NULL.
RECURSIVE SelectFrom_NoNullFilter(_, _, _, _)
SelectFrom_NoNullFilter(tbl, i, stormId, timeframe) ==
  IF i > Len(tbl) THEN <<>>
  ELSE IF tbl[i].storm_id = stormId /\ tbl[i].timeframe = timeframe
       THEN <<tbl[i]>> \o SelectFrom_NoNullFilter(tbl, i + 1, stormId, timeframe)
       ELSE SelectFrom_NoNullFilter(tbl, i + 1, stormId, timeframe)

\* SELECT * FROM predictions WHERE storm_id = $1 AND timeframe = $2 AND score IS NULL
RECURSIVE SelectFrom(_, _, _, _)
SelectFrom(tbl, i, stormId, timeframe) ==
  IF i > Len(tbl) THEN <<>>
  ELSE IF tbl[i].storm_id = stormId /\ tbl[i].timeframe = timeframe /\ tbl[i].score = NULL
       THEN <<tbl[i]>> \o SelectFrom(tbl, i + 1, stormId, timeframe)
       ELSE SelectFrom(tbl, i + 1, stormId, timeframe)

\* Variant: a catch-up sweep, the unscored rows of every checkpoint of the
\* storm are selected.
SelectUnscored_CatchUp(tbl, stormId, timeframe) ==
  SelectSeq(tbl, LAMBDA r : r.storm_id = stormId /\ r.score = NULL)

SelectUnscored(tbl, stormId, timeframe) == SelectFrom(tbl, 1, stormId, timeframe)

\* Variant: the table has no uniqueness constraint.
ViolatesUnique_NoConstraint(tbl, req) == FALSE

\* UNIQUE(username, storm_id, timeframe)
ViolatesUnique(tbl, req) ==
  \E i \in 1..Len(tbl) :
    /\ tbl[i].username = req.username
    /\ tbl[i].storm_id = req.stormId
    /\ tbl[i].timeframe = req.timeframe

\* Variant: the INSERT copies the forecast into the actual_* columns.
NewRow_ActualsFilled(tbl, req) ==
  [id |-> Len(tbl) + 1,
   username |-> req.username, storm_id |-> req.stormId, timeframe |-> req.timeframe,
   predicted_lat |-> req.lat, predicted_lon |-> req.lon,
   predicted_wind_speed |-> req.windSpeed, predicted_pressure |-> req.pressure,
   actual_lat |-> req.lat, actual_lon |-> req.lon,
   actual_wind_speed |-> req.windSpeed, actual_pressure |-> req.pressure,
   score |-> NULL]

\* INSERT INTO predictions (...) VALUES (...): the other columns are null.
NewRow(tbl, req) ==
  [id |-> Len(tbl) + 1,
   username |-> req.username, storm_id |-> req.stormId, timeframe |-> req.timeframe,
   predicted_lat |-> req.lat, predicted_lon |-> req.lon,
   predicted_wind_speed |-> req.windSpeed, predicted_pressure |-> req.pressure,
   actual_lat |-> NULL, actual_lon |-> NULL,
   actual_wind_speed |-> NULL, actual_pressure |-> NULL,
   score |-> NULL]

\* SELECT 1 FROM user_badges WHERE username = $1 AND badge_id = $2
hasBadge(tbl, username, badge_id) ==
  \E i \in 1..Len(tbl) : tbl[i].username = username /\ tbl[i].badge_id = badge_id

\* Variant: a plain INSERT into a table without the UNIQUE(username, badge_id)
\* constraint.
awardBadge_PlainInsert(tbl, username, badge_id) ==
  Append(tbl, [username |-> username, badge_id |-> badge_id])

\* INSERT INTO user_badges ... ON CONFLICT (username, badge_id) DO NOTHING
awardBadge(tbl, username, badge_id) ==
  IF hasBadge(tbl, username, badge_id) THEN tbl
  ELSE Append(tbl, [username |-> username, badge_id |-> badge_id])

\* ---------------------------------------------------------- badge evaluator
\* Number.prototype.toString for a non-negative integer: its decimal digits.
RECURSIVE Digits(_)
Digits(n) == IF n < 10 THEN <<n>> ELSE Append(Digits(n \div 10), n % 10)

\* Variant: the test is endsWith('77').
EndsWith777_TwoDigits(digits) ==
  /\ Len(digits) >= 2
  /\ SubSeq(digits, Len(digits) - 1, Len(digits)) = <<7, 7>>

\* String.prototype.endsWith('777')
EndsWith777(digits) ==
  /\ Len(digits) >= 3
  /\ SubSeq(digits, Len(digits) - 2, Len(digits)) = <<7, 7, 7>>

\* Variant: the stats query lacks the condition on the username.
ScoredRowsOf_EveryUser(tbl, username) ==
  {i \in 1..Len(tbl) : tbl[i].score # NULL}

\* FROM predictions WHERE username = $1 AND score IS NOT NULL
ScoredRowsOf(tbl, username) ==
  {i \in 1..Len(tbl) : tbl[i].username = username /\ tbl[i].score # NULL}

RECURSIVE SumScores(_, _)
SumScores(tbl, ids) ==
  IF ids = {} THEN 0
  ELSE LET i == CHOOSE x \in ids : TRUE
       IN  tbl[i].score + SumScores(tbl, ids \ {i})

\* SELECT COUNT(*), SUM(COALESCE(score, 0)), COUNT(DISTINCT storm_id)
\*   FROM predictions WHERE username = $1 AND score IS NOT NULL
UserStats(tbl, username) ==
  LET ids == ScoredRowsOf(tbl, username)
  IN  [totalPredictions |-> Cardinality(ids),
       totalScore |-> SumScores(tbl, ids),
       uniqueStorms |-> Cardinality({tbl[i].storm_id : i \in ids})]

Keep(cond, badge_id) == IF cond THEN <<badge_id>> ELSE <<>>

\* Variant: the points rules fire on the exact threshold only.
QualifyingBadges_PointsExact(stats, score) ==
     Keep(stats.totalPredictions = 1, "first_prediction")
  \o Keep(stats.totalPredictions = 10, "veteran_10")
  \o Keep(stats.totalPredictions = 50, "veteran_50")
  \o Keep(stats.totalPredictions = 100, "veteran_100")
  \o Keep(stats.totalPredictions = 500, "veteran_500")
  \o Keep(stats.totalScore = 5000, "points_5k")
  \o Keep(stats.totalScore = 25000, "points_25k")
  \o Keep(stats.totalScore = 50000, "points_50k")
  \o Keep(stats.totalScore = 100000, "points_100k")
  \o Keep(stats.uniqueStorms = 5, "storm_survivor_5")
  \o Keep(stats.uniqueStorms = 12, "storm_survivor_12")
  \o (IF score # NULL /\ score # 0
      THEN    Keep(score >= 1900, "diamond_prediction")
           \o Keep(score >= 1950, "oracle")
           \o Keep(score = 2000, "perfect_storm")
           \o Keep(EndsWith777(Digits(score)), "lucky_number")
      ELSE <<>>)

\* The badges whose condition holds, in the order checkAndAwardBadges tests
\* them; each is then looked up with hasBadge and, if absent, awarded.
QualifyingBadges(stats, score) ==
     Keep(stats.totalPredictions = 1, "first_prediction")
  \o Keep(stats.totalPredictions = 10, "veteran_10")
  \o Keep(stats.totalPredictions = 50, "veteran_50")
  \o Keep(stats.totalPredictions = 100, "veteran_100")
  \o Keep(stats.totalPredictions = 500, "veteran_500")
  \o Keep(stats.totalScore >= 5000, "points_5k")
  \o Keep(stats.totalScore >= 25000, "points_25k")
  \o Keep(stats.totalScore >= 50000, "points_50k")
  \o Keep(stats.totalScore >= 100000, "points_100k")
  \o Keep(stats.uniqueStorms = 5, "storm_survivor_5")
  \o Keep(stats.uniqueStorms = 12, "storm_survivor_12")
  \o (IF score # NULL /\ score # 0
      THEN    Keep(score >= 1900, "diamond_prediction")
           \o Keep(score >= 1950, "oracle")
           \o Keep(score = 2000, "perfect_storm")
           \o Keep(EndsWith777(Digits(score)), "lucky_number")
      ELSE <<>>)

\* checkAndAwardBadges after its stats query, run to its end with every
\* query succeeding: each qualifying badge the user lacks is inserted.
RECURSIVE AwardAll(_, _, _)
AwardAll(tbl, username, todo) ==
  IF todo = <<>> THEN tbl
  ELSE AwardAll(IF hasBadge(tbl, username, Head(todo))
                THEN tbl
                ELSE awardBadge(tbl, username, Head(todo)),
                username, Tail(todo))

\* --------------------------------------------------- shouldAwardBadge (pure)
\* Variant: a statistic the stats object lacks counts as 1.
Stat_DefaultOne(stats, name) == IF name \in DOMAIN stats THEN stats[name] ELSE 1

\* const { totalPredictions = 0, ... } = stats
Stat(stats, name) == IF name \in DOMAIN stats THEN stats[name] ELSE 0

\* Variant: === replaced by >=.
StrictEq_AtLeast(a, b) == a >= b

\* a === b
StrictEq(a, b) == a = b

\* Variant: >= replaced by ===.
AtLeast_Exact(a, b) == a = b

\* a >= b
AtLeast(a, b) == a >= b

\* Variant: the storm rules compare the count of predictions.
shouldAwardBadge_StormsByCount(stats, badgeId) ==
  LET totalPredictions == Stat(stats, "totalPredictions")
      totalScore == Stat(stats, "totalScore")
      uniqueStorms == Stat(stats, "uniqueStorms")
      currentScore == Stat(stats, "currentScore")
  IN  IF badgeId = "first_prediction" /\ StrictEq(totalPredictions, 1) THEN TRUE
      ELSE IF badgeId = "veteran_10" /\ StrictEq(totalPredictions, 10) THEN TRUE
      ELSE IF badgeId = "veteran_50" /\ StrictEq(totalPredictions, 50) THEN TRUE
      ELSE IF badgeId = "veteran_100" /\ StrictEq(totalPredictions, 100) THEN TRUE
      ELSE IF badgeId = "veteran_500" /\ StrictEq(totalPredictions, 500) THEN TRUE
      ELSE IF badgeId = "points_5k" /\ AtLeast(totalScore, 5000) THEN TRUE
      ELSE IF badgeId = "points_25k" /\ AtLeast(totalScore, 25000) THEN TRUE
      ELSE IF badgeId = "points_50k" /\ AtLeast(totalScore, 50000) THEN TRUE
      ELSE IF badgeId = "points_100k" /\ AtLeast(totalScore, 100000) THEN TRUE
      ELSE IF badgeId = "storm_survivor_5" /\ StrictEq(totalPredictions, 5) THEN TRUE
      ELSE IF badgeId = "storm_survivor_12" /\ StrictEq(totalPredictions, 12) THEN TRUE
      ELSE IF badgeId = "diamond_prediction" /\ AtLeast(currentScore, 1900) THEN TRUE
      ELSE IF badgeId = "oracle" /\ AtLeast(currentScore, 1950) THEN TRUE
      ELSE IF badgeId = "perfect_storm" /\ StrictEq(currentScore, 2000) THEN TRUE
      ELSE IF badgeId = "lucky_number" /\ EndsWith777(Digits(currentScore)) THEN TRUE
      ELSE FALSE

\* shouldAwardBadge(stats, badgeId) of the game-logic module
shouldAwardBadge(stats, badgeId) ==
  LET totalPredictions == Stat(stats, "totalPredictions")
      totalScore == Stat(stats, "totalScore")
      uniqueStorms == Stat(stats, "uniqueStorms")
      currentScore == Stat(stats, "currentScore")
  IN  IF badgeId = "first_prediction" /\ StrictEq(totalPredictions, 1) THEN TRUE
      ELSE IF badgeId = "veteran_10" /\ StrictEq(totalPredictions, 10) THEN TRUE
      ELSE IF badgeId = "veteran_50" /\ StrictEq(totalPredictions, 50) THEN TRUE
      ELSE IF badgeId = "veteran_100" /\ StrictEq(totalPredictions, 100) THEN TRUE
      ELSE IF badgeId = "veteran_500" /\ StrictEq(totalPredictions, 500) THEN TRUE
      ELSE IF badgeId = "points_5k" /\ AtLeast(totalScore, 5000) THEN TRUE
      ELSE IF badgeId = "points_25k" /\ AtLeast(totalScore, 25000) THEN TRUE
      ELSE IF badgeId = "points_50k" /\ AtLeast(totalScore, 50000) THEN TRUE
      ELSE IF badgeId = "points_100k" /\ AtLeast(totalScore, 100000) THEN TRUE
      ELSE IF badgeId = "storm_survivor_5" /\ StrictEq(uniqueStorms, 5) THEN TRUE
      ELSE IF badgeId = "storm_survivor_12" /\ StrictEq(uniqueStorms, 12) THEN TRUE
      ELSE IF badgeId = "diamond_prediction" /\ AtLeast(currentScore, 1900) THEN TRUE
      ELSE IF badgeId = "oracle" /\ AtLeast(currentScore, 1950) THEN TRUE
      ELSE IF badgeId = "perfect_storm" /\ StrictEq(currentScore, 2000) THEN TRUE
      ELSE IF badgeId = "lucky_number" /\ EndsWith777(Digits(currentScore)) THEN TRUE
      ELSE FALSE

\* ------------------------------------------------------------- scoring pass
NoData ==
  [timeframe |-> "null", type |-> "null", lat |-> NULL, lon |-> NULL,
   windSpeed |-> NULL, pressure |-> NULL]

IdlePass ==
  [pc |-> "idle", origin |-> "none", stormId |-> "null", timeframe |-> "null",
   actualData |-> NoData, rows |-> <<>>, todo |-> <<>>]

\* Variant: the track score is added twice and the intensity score left out.
TotalScore_TrackTwice(pred, actualData) ==
  LET distanceError == calculateDistance(pred.predicted_lat, pred.predicted_lon,
                                         actualData.lat, actualData.lon)
      trackScore == calculateTrackScore(distanceError)
  IN  trackScore + trackScore

\* trackScore + intensityScore of one prediction row against the actual data
TotalScore(pred, actualData) ==
  LET distanceError == calculateDistance(pred.predicted_lat, pred.predicted_lon,
                                         actualData.lat, actualData.lon)
      windError == Abs(pred.predicted_wind_speed - actualData.windSpeed)
      pressureError == Abs(pred.predicted_pressure - actualData.pressure)
      trackScore == calculateTrackScore(distanceError)
      intensityScore == calculateIntensityScore(windError, pressureError)
  IN  trackScore + intensityScore

\* Variant: SET score = COALESCE(score, 0) + $1.
UpdateScore_Accumulate(tbl, id, totalScore, actualData) ==
  [tbl EXCEPT ![id] = [@ EXCEPT !.score = (IF @ = NULL THEN 0 ELSE @) + totalScore,
                                !.actual_lat = actualData.lat,
                                !.actual_lon = actualData.lon,
                                !.actual_wind_speed = actualData.windSpeed,
                                !.actual_pressure = actualData.pressure]]

\* UPDATE predictions SET score = $1, actual_* = ... WHERE id = $6
UpdateScore(tbl, id, totalScore, actualData) ==
  [tbl EXCEPT ![id] = [@ EXCEPT !.score = totalScore,
                                !.actual_lat = actualData.lat,
                                !.actual_lon = actualData.lon,
                                !.actual_wind_speed = actualData.windSpeed,
                                !.actual_pressure = actualData.pressure]]

FreeSlots == {i \in 1..MaxPasses : passes[i].pc = "idle"}

AllIdle == \A i \in 1..MaxPasses : passes[i].pc = "idle"

CanFail == errorLog < MaxFailures

\* scorePredictions(stormId, timeframe, actualData) is called: its SELECT is sent.
StartPass(i, origin, stormId, timeframe, actualData) ==
  passes' = [passes EXCEPT ![i] =
               [pc |-> "select", origin |-> origin, stormId |-> stormId,
                timeframe |-> timeframe, actualData |-> actualData,
                rows |-> <<>>, todo |-> <<>>]]

\* The pass in slot i returns; the manual trigger then answers its caller.
FinishPass(i) ==
  /\ passes' = [passes EXCEPT ![i] = IdlePass]
  /\ response' = IF passes[i].origin = "admin"
                 THEN [endpoint |-> "admin/score", status |-> 200]
                 ELSE NoResponse

\* The loop of scorePredictions moves to its next row, or ends.
NextRow(i) ==
  IF Len(passes[i].rows) > 1
  THEN /\ passes' = [passes EXCEPT ![i].rows = Tail(@), ![i].todo = <<>>,
                                   ![i].pc = "update"]
       /\ response' = NoResponse
  ELSE FinishPass(i)

\* ------------------------------------------------------------------ actions
RemoveAt(seq, k) == SubSeq(seq, 1, k - 1) \o SubSeq(seq, k + 1, Len(seq))

\* The rows submitted for the storms of the schedule (MaxRows bounds them).
RowsOfSchedule == {i \in 1..Len(predictions) : predictions[i].storm_id \in StormIds}

\* !username || !stormId || !timeframe || !lat || !lon || !windSpeed || !pressure:
\* an empty string and the number 0 are falsy.
MissingField(username, stormId, timeframe, f) ==
  \/ username = ""
  \/ stormId = ""
  \/ timeframe = ""
  \/ f.lat = 0
  \/ f.lon = 0
  \/ f.windSpeed = 0
  \/ f.pressure = 0

\* Variant: the handler does not compare the timeframe with the active one.
SubmitPrediction_NoTimeframeCheck(username, stormId, timeframe, f) ==
  LET currentStorm == getCurrentStorm(HISTORICAL_STORMS, now)
  IN  /\ IF MissingField(username, stormId, timeframe, f)
         THEN /\ response' = [endpoint |-> "predictions", status |-> 400]
              /\ UNCHANGED inflight
         ELSE IF currentStorm = NoStorm \/ currentStorm.id # stormId
         THEN /\ response' = [endpoint |-> "predictions", status |-> 400]
              /\ UNCHANGED inflight
         ELSE /\ Cardinality(RowsOfSchedule) + Len(inflight) < MaxRows
              /\ inflight' = Append(inflight,
                   [username |-> username, stormId |-> stormId, timeframe |-> timeframe,
                    lat |-> f.lat, lon |-> f.lon,
                    windSpeed |-> f.windSpeed, pressure |-> f.pressure])
              /\ response' = NoResponse
      /\ UNCHANGED <<now, uptime, HISTORICAL_STORMS, predictions, user_badges, passes,
                     errorLog, writes, evals, invoked, call>>

\* POST /api/predictions: the body is validated against the game clock and
\* the INSERT is sent.
SubmitPrediction(username, stormId, timeframe, f) ==
  LET currentStorm == getCurrentStorm(HISTORICAL_STORMS, now)
      activeTimeframe == getActiveTimeframe(currentStorm, now)
  IN  /\ IF MissingField(username, stormId, timeframe, f)
         THEN /\ response' = [endpoint |-> "predictions", status |-> 400]
              /\ UNCHANGED inflight
         ELSE IF currentStorm = NoStorm \/ currentStorm.id # stormId
         THEN /\ response' = [endpoint |-> "predictions", status |-> 400]
              /\ UNCHANGED inflight
         ELSE IF activeTimeframe # timeframe
         THEN /\ response' = [endpoint |-> "predictions", status |-> 400]
              /\ UNCHANGED inflight
         ELSE /\ Cardinality(RowsOfSchedule) + Len(inflight) < MaxRows
              /\ inflight' = Append(inflight,
                   [username |-> username, stormId |-> stormId, timeframe |-> timeframe,
                    lat |-> f.lat, lon |-> f.lon,
                    windSpeed |-> f.windSpeed, pressure |-> f.pressure])
              /\ response' = NoResponse
      /\ UNCHANGED <<now, uptime, HISTORICAL_STORMS, predictions, user_badges, passes,
                     errorLog, writes, evals, invoked, call>>

\* The INSERT of an accepted submission executes and the request is answered.
InsertPrediction(k) ==
  /\ k \in 1..Len(inflight)
  /\ inflight' = RemoveAt(inflight, k)
  /\ IF ViolatesUnique(predictions, inflight[k])
     THEN /\ response' = [endpoint |-> "predictions", status |-> 400]
          /\ UNCHANGED <<predictions, writes, evals>>
     ELSE /\ predictions' = Append(predictions, NewRow(predictions, inflight[k]))
          /\ writes' = Append(writes, 0)
          /\ evals' = Append(evals, 0)
          /\ response' = [endpoint |-> "predictions", status |-> 201]
  /\ UNCHANGED <<now, uptime, HISTORICAL_STORMS, user_badges, passes, errorLog, invoked, call>>

\* The INSERT fails for lack of persistence: 500.
InsertPredictionFails(k) ==
  /\ k \in 1..Len(inflight)
  /\ CanFail
  /\ inflight' = RemoveAt(inflight, k)
  /\ response' = [endpoint |-> "predictions", status |-> 500]
  /\ errorLog' = errorLog + 1
  /\ UNCHANGED <<now, uptime, HISTORICAL_STORMS, predictions, user_badges, passes,
                 writes, evals, invoked, call>>

\* Variant: each scoring window is one polling interval long.
timeframesToScore_PollWindow(currentStorm, t) ==
  LET ticksSinceStart == t - currentStorm.gameStart
      tfs == currentStorm.timeframes
      Is0600(x) == x.timeframe = "0600"
      Is1200(x) == x.timeframe = "1200"
      Is1800(x) == x.timeframe = "1800"
      Is0000(x) == x.timeframe = "0000" /\ x.type = "prediction"
      Entry(tf, i) == <<[tf |-> tf, data |-> IF i = 0 THEN NoData ELSE tfs[i]]>>
  IN     (IF ticksSinceStart = 6 * PollsPerHour
          THEN Entry("0600", FindIndex(tfs, Is0600)) ELSE <<>>)
      \o (IF ticksSinceStart = 12 * PollsPerHour
          THEN Entry("1200", FindIndex(tfs, Is1200)) ELSE <<>>)
      \o (IF ticksSinceStart = 18 * PollsPerHour
          THEN Entry("1800", FindIndex(tfs, Is1800)) ELSE <<>>)
      \o (IF ticksSinceStart = 24 * PollsPerHour
          THEN Entry("0000", FindIndex(tfs, Is0000)) ELSE <<>>)

\* The timeframes checkAndScore decides to score at time t for currentStorm.
timeframesToScore(currentStorm, t) ==
  LET ticksSinceStart == t - currentStorm.gameStart
      tfs == currentStorm.timeframes
      Is0600(x) == x.timeframe = "0600"
      Is1200(x) == x.timeframe = "1200"
      Is1800(x) == x.timeframe = "1800"
      Is0000(x) == x.timeframe = "0000" /\ x.type = "prediction"
      Entry(tf, i) == <<[tf |-> tf, data |-> IF i = 0 THEN NoData ELSE tfs[i]]>>
  IN     (IF ticksSinceStart >= 6 * PollsPerHour /\ ticksSinceStart < 7 * PollsPerHour
          THEN Entry("0600", FindIndex(tfs, Is0600)) ELSE <<>>)
      \o (IF ticksSinceStart >= 12 * PollsPerHour /\ ticksSinceStart < 13 * PollsPerHour
          THEN Entry("1200", FindIndex(tfs, Is1200)) ELSE <<>>)
      \o (IF ticksSinceStart >= 18 * PollsPerHour /\ ticksSinceStart < 19 * PollsPerHour
          THEN Entry("1800", FindIndex(tfs, Is1800)) ELSE <<>>)
      \o (IF ticksSinceStart >= 24 * PollsPerHour /\ ticksSinceStart < 25 * PollsPerHour
          THEN Entry("0000", FindIndex(tfs, Is0000)) ELSE <<>>)

\* One polling interval elapses and the timer runs checkAndScore.
Tick ==
  /\ uptime < MaxUptime
  /\ inflight = <<>>
  /\ now' = now + 1
  /\ uptime' = uptime + 1
  /\ LET currentStorm == getCurrentStorm(HISTORICAL_STORMS, now')
         toScore == IF currentStorm = NoStorm THEN <<>>
                    ELSE SelectSeq(timeframesToScore(currentStorm, now'),
                                   LAMBDA e : e.data # NoData)
     IN  IF toScore = <<>>
         THEN UNCHANGED <<passes, invoked>>
         ELSE /\ FreeSlots # {}
              /\ LET i == CHOOSE x \in FreeSlots : \A y \in FreeSlots : x <= y
                     e == toScore[1]
                 IN  /\ StartPass(i, "timer", currentStorm.id, e.tf, e.data)
                     /\ invoked' = [invoked EXCEPT ![<<currentStorm.id, e.tf>>] = @ + 1]
  /\ response' = NoResponse
  /\ UNCHANGED <<HISTORICAL_STORMS, predictions, user_badges, inflight,
                 errorLog, writes, evals, call>>

\* A tick of the timer when every Scoring Pass started so far has returned:
\* a pass takes less than a polling interval.
TickIdle == AllIdle /\ Tick

\* Variant: the checkpoint is looked up by its label alone.
AdminScore_AnyKind(stormId, timeframe) ==
  LET HasId(x) == x.id = stormId
      si == FindIndex(HISTORICAL_STORMS, HasId)
      HasLabel(x) == x.timeframe = timeframe
      ti == IF si = 0 THEN 0 ELSE FindIndex(HISTORICAL_STORMS[si].timeframes, HasLabel)
  IN  /\ IF si = 0 \/ ti = 0
         THEN /\ response' = [endpoint |-> "admin/score", status |-> 404]
              /\ UNCHANGED passes
         ELSE /\ FreeSlots # {}
              /\ LET i == CHOOSE x \in FreeSlots : \A y \in FreeSlots : x <= y
                 IN  StartPass(i, "admin", stormId, timeframe,
                               HISTORICAL_STORMS[si].timeframes[ti])
              /\ response' = NoResponse
      /\ UNCHANGED <<now, uptime, HISTORICAL_STORMS, predictions, user_badges, inflight,
                     errorLog, writes, evals, invoked, call>>

\* POST /api/admin/score/:stormId/:timeframe
AdminScore(stormId, timeframe) ==
  LET HasId(x) == x.id = stormId
      si == FindIndex(HISTORICAL_STORMS, HasId)
      IsPrediction(x) == x.timeframe = timeframe /\ x.type = "prediction"
      ti == IF si = 0 THEN 0 ELSE FindIndex(HISTORICAL_STORMS[si].timeframes, IsPrediction)
  IN  /\ IF si = 0 \/ ti = 0
         THEN /\ response' = [endpoint |-> "admin/score", status |-> 404]
              /\ UNCHANGED passes
         ELSE /\ FreeSlots # {}
              /\ LET i == CHOOSE x \in FreeSlots : \A y \in FreeSlots : x <= y
                 IN  StartPass(i, "admin", stormId, timeframe,
                               HISTORICAL_STORMS[si].timeframes[ti])
              /\ response' = NoResponse
      /\ UNCHANGED <<now, uptime, HISTORICAL_STORMS, predictions, user_badges, inflight,
                     errorLog, writes, evals, invoked, call>>

\* checkAndAwardBadges goes on with the badges left to test, or returns.
ContinueBadges(i, rest) ==
  IF rest = <<>>
  THEN NextRow(i)
  ELSE /\ passes' = [passes EXCEPT ![i].todo = rest, ![i].pc = "has"]
       /\ response' = NoResponse

\* Variant: the SELECT returns the unscored rows of the storm whatever their
\* checkpoint.
PassSelect_AnyTimeframe(i) ==
  /\ passes[i].pc = "select"
  /\ LET IsUnscored(r) == r.storm_id = passes[i].stormId /\ r.score = NULL
         rows == SelectSeq(predictions, IsUnscored)
     IN  IF rows = <<>>
         THEN FinishPass(i)
         ELSE /\ passes' = [passes EXCEPT ![i].rows = rows, ![i].pc = "update"]
              /\ response' = NoResponse
  /\ UNCHANGED <<now, uptime, HISTORICAL_STORMS, predictions, user_badges, inflight,
                 errorLog, writes, evals, invoked, call>>

\* scorePredictions: the SELECT of the unscored rows returns.
PassSelect(i) ==
  /\ passes[i].pc = "select"
  /\ LET rows == SelectUnscored(predictions, passes[i].stormId, passes[i].timeframe)
     IN  IF rows = <<>>
         THEN FinishPass(i)
         ELSE /\ passes' = [passes EXCEPT ![i].rows = rows, ![i].pc = "update"]
              /\ response' = NoResponse
  /\ UNCHANGED <<now, uptime, HISTORICAL_STORMS, predictions, user_badges, inflight,
                 errorLog, writes, evals, invoked, call>>

\* The SELECT throws: the catch of scorePredictions logs and the pass returns.
PassSelectFails(i) ==
  /\ passes[i].pc = "select"
  /\ CanFail
  /\ errorLog' = errorLog + 1
  /\ FinishPass(i)
  /\ UNCHANGED <<now, uptime, HISTORICAL_STORMS, predictions, user_badges, inflight,
                 writes, evals, invoked, call>>

\* Variant: the loop goes to its next row without calling checkAndAwardBadges.
PassUpdate_NoEvaluation(i) ==
  /\ passes[i].pc = "update"
  /\ LET pred == Head(passes[i].rows)
         totalScore == TotalScore(pred, passes[i].actualData)
     IN  /\ predictions' = UpdateScore(predictions, pred.id, totalScore, passes[i].actualData)
         /\ writes' = [writes EXCEPT ![pred.id] = @ + 1]
  /\ NextRow(i)
  /\ UNCHANGED <<now, uptime, HISTORICAL_STORMS, user_badges, inflight,
                 errorLog, evals, invoked, call>>

\* scorePredictions: the UPDATE of the current row of the loop executes.
PassUpdate(i) ==
  /\ passes[i].pc = "update"
  /\ LET pred == Head(passes[i].rows)
         totalScore == TotalScore(pred, passes[i].actualData)
     IN  /\ predictions' = UpdateScore(predictions, pred.id, totalScore, passes[i].actualData)
         /\ writes' = [writes EXCEPT ![pred.id] = @ + 1]
  /\ passes' = [passes EXCEPT ![i].pc = "stats"]
  /\ response' = NoResponse
  /\ UNCHANGED <<now, uptime, HISTORICAL_STORMS, user_badges, inflight,
                 errorLog, evals, invoked, call>>

\* The UPDATE throws: the catch around the whole loop logs and the pass returns.
PassUpdateFails(i) ==
  /\ passes[i].pc = "update"
  /\ CanFail
  /\ errorLog' = errorLog + 1
  /\ FinishPass(i)
  /\ UNCHANGED <<now, uptime, HISTORICAL_STORMS, predictions, user_badges, inflight,
                 writes, evals, invoked, call>>

\* checkAndAwardBadges(pred.username, {...pred, score}): the stats query returns.
PassStats(i) ==
  /\ passes[i].pc = "stats"
  /\ LET pred == Head(passes[i].rows)
         totalScore == TotalScore(pred, passes[i].actualData)
         stats == UserStats(predictions, pred.username)
     IN  /\ evals' = [evals EXCEPT ![pred.id] = @ + 1]
         /\ ContinueBadges(i, QualifyingBadges(stats, totalScore))
  /\ UNCHANGED <<now, uptime, HISTORICAL_STORMS, predictions, user_badges, inflight,
                 errorLog, writes, invoked, call>>

\* The stats query throws: checkAndAwardBadges logs and returns.
PassStatsFails(i) ==
  /\ passes[i].pc = "stats"
  /\ CanFail
  /\ evals' = [evals EXCEPT ![Head(passes[i].rows).id] = @ + 1]
  /\ errorLog' = errorLog + 1
  /\ NextRow(i)
  /\ UNCHANGED <<now, uptime, HISTORICAL_STORMS, predictions, user_badges, inflight,
                 writes, invoked, call>>

\* checkAndAwardBadges: the hasBadge query for the next qualifying badge returns.
PassHasBadge(i) ==
  /\ passes[i].pc = "has"
  /\ IF hasBadge(user_badges, Head(passes[i].rows).username, Head(passes[i].todo))
     THEN ContinueBadges(i, Tail(passes[i].todo))
     ELSE /\ passes' = [passes EXCEPT ![i].pc = "award"]
          /\ response' = NoResponse
  /\ UNCHANGED <<now, uptime, HISTORICAL_STORMS, predictions, user_badges, inflight,
                 errorLog, writes, evals, invoked, call>>

\* The hasBadge query throws: checkAndAwardBadges logs and returns.
PassHasBadgeFails(i) ==
  /\ passes[i].pc = "has"
  /\ CanFail
  /\ errorLog' = errorLog + 1
  /\ NextRow(i)
  /\ UNCHANGED <<now, uptime, HISTORICAL_STORMS, predictions, user_badges, inflight,
                 writes, evals, invoked, call>>

\* awardBadge: the INSERT ... ON CONFLICT DO NOTHING executes.
PassAward(i) ==
  /\ passes[i].pc = "award"
  /\ user_badges' = awardBadge(user_badges, Head(passes[i].rows).username,
                               Head(passes[i].todo))
  /\ ContinueBadges(i, Tail(passes[i].todo))
  /\ UNCHANGED <<now, uptime, HISTORICAL_STORMS, predictions, inflight,
                 errorLog, writes, evals, invoked, call>>

\* The INSERT throws: awardBadge logs and checkAndAwardBadges goes on.
PassAwardFails(i) ==
  /\ passes[i].pc = "award"
  /\ CanFail
  /\ errorLog' = errorLog + 1
  /\ ContinueBadges(i, Tail(passes[i].todo))
  /\ UNCHANGED <<now, uptime, HISTORICAL_STORMS, predictions, user_badges, inflight,
                 writes, evals, invoked, call>>

\* ------------------------------------------------------------ specification
Init ==
  /\ now \in StartTimes
  /\ uptime = 0
  /\ HISTORICAL_STORMS \in Schedules
  /\ predictions = <<>>
  /\ user_badges = <<>>
  /\ inflight = <<>>
  /\ passes = [i \in 1..MaxPasses |-> IdlePass]
  /\ response = NoResponse
  /\ errorLog = 0
  /\ writes = <<>>
  /\ evals = <<>>
  /\ invoked = [k \in StormIds \X Timeframes |-> 0]
  /\ call = NoCall

\* The game as it runs unattended: players submit, the timer polls, a Scoring
\* Pass returns before the next tick, and any statement may fail for lack of
\* persistence.
Next ==
  \/ \E u \in Users, s \in StormIds, tf \in Timeframes, f \in Forecasts :
       SubmitPrediction(u, s, tf, f)
  \/ \E k \in 1..MaxRows : InsertPrediction(k)
  \/ \E k \in 1..MaxRows : InsertPredictionFails(k)
  \/ TickIdle
  \/ \E i \in 1..MaxPasses : PassSelect(i)
  \/ \E i \in 1..MaxPasses : PassSelectFails(i)
  \/ \E i \in 1..MaxPasses : PassUpdate(i)
  \/ \E i \in 1..MaxPasses : PassUpdateFails(i)
  \/ \E i \in 1..MaxPasses : PassStats(i)
  \/ \E i \in 1..MaxPasses : PassStatsFails(i)
  \/ \E i \in 1..MaxPasses : PassHasBadge(i)
  \/ \E i \in 1..MaxPasses : PassHasBadgeFails(i)
  \/ \E i \in 1..MaxPasses : PassAward(i)
  \/ \E i \in 1..MaxPasses : PassAwardFails(i)

Spec == Init /\ [][Next]_vars

TypeOK ==
  /\ uptime \in 0..MaxUptime
  /\ Cardinality(RowsOfSchedule) <= MaxRows
  /\ Len(writes) = Len(predictions)
  /\ Len(evals) = Len(predictions)

\* The game with an operator: the process starts one polling interval before
\* the first boundary of the first storm, and manual scoring requests start
\* Scoring Passes that interleave with one another and with the timer's.
\* Submissions name the first storm and the two checkpoints the clock reaches;
\* a request for another storm or label is answered 400 like one for the
\* checkpoint that is not active, and changes nothing else.
InitConc ==
  /\ Init
  /\ now = 6 * PollsPerHour - 1
  /\ HISTORICAL_STORMS = <<Katrina, Andrew>>

NextConc ==
  \/ \E u \in Users, tf \in {"0600", "1200"}, f \in Forecasts :
       SubmitPrediction(u, "katrina-2005", tf, f)
  \/ \E k \in 1..MaxRows : InsertPrediction(k)
  \/ TickIdle
  \/ \E s \in AdminStormIds, tf \in AdminTimeframes : AdminScore(s, tf)
  \/ \E i \in 1..MaxPasses : PassSelect(i)
  \/ \E i \in 1..MaxPasses : PassUpdate(i)
  \/ \E i \in 1..MaxPasses : PassStats(i)
  \/ \E i \in 1..MaxPasses : PassHasBadge(i)
  \/ \E i \in 1..MaxPasses : PassAward(i)

ConcSpec == InitConc /\ [][NextConc]_vars

\* ------------------------------------------ a database with earlier seasons
\* Storms of earlier seasons, no longer in the schedule.
PastStormIds == <<"camille-1969", "hugo-1989", "ivan-2004">>

CheckpointLabels == <<"0600", "1200", "1800", "0000">>

\* The k-th row of user alice from earlier seasons, scored with score.
PastRow(k, score) ==
  [id |-> k,
   username |-> "alice",
   storm_id |-> PastStormIds[((k - 1) \div 4) + 1],
   timeframe |-> CheckpointLabels[((k - 1) % 4) + 1],
   predicted_lat |-> 250, predicted_lon |-> 0 - 900,
   predicted_wind_speed |-> 100, predicted_pressure |-> 950,
   actual_lat |-> 250, actual_lon |-> 0 - 900,
   actual_wind_speed |-> 100, actual_pressure |-> 950,
   score |-> score]

PastRows(n, score) == [k \in 1..n |-> PastRow(k, score)]

\* The tables the process may find at startup; every earlier prediction matched
\* the actual values and scored 2000. Alice has 4000 points and her first
\* badge; alice has 6000 points and holds points_5k; alice has 24000 points
\* and no badge (every earlier award was lost).
Histories ==
  { [predictions |-> PastRows(2, 2000),
     user_badges |-> <<[username |-> "alice", badge_id |-> "first_prediction"]>>],
    [predictions |-> PastRows(3, 2000),
     user_badges |-> <<[username |-> "alice", badge_id |-> "first_prediction"],
                       [username |-> "alice", badge_id |-> "points_5k"]>>],
    [predictions |-> PastRows(12, 2000),
     user_badges |-> <<>>] }

\* The process starts one polling interval before the first boundary of the
\* first storm, on a database that holds earlier seasons.
InitSeeded ==
  /\ now = 6 * PollsPerHour - 1
  /\ uptime = 0
  /\ HISTORICAL_STORMS = <<Katrina, Andrew>>
  /\ \E h \in Histories :
       /\ predictions = h.predictions
       /\ user_badges = h.user_badges
       /\ writes = [k \in 1..Len(h.predictions) |-> 0]
       /\ evals = [k \in 1..Len(h.predictions) |-> 0]
  /\ inflight = <<>>
  /\ passes = [i \in 1..MaxPasses |-> IdlePass]
  /\ response = NoResponse
  /\ errorLog = 0
  /\ invoked = [k \in StormIds \X Timeframes |-> 0]
  /\ call = NoCall

SeededSpec == InitSeeded /\ [][Next]_vars

\* ------------------------------------------------- players of varying skill
\* A forecast that matches the actual values of the first storm's 0600
\* checkpoint.
ExactForecast == [lat |-> 261, lon |-> 0 - 815, windSpeed |-> 100, pressure |-> 960]

\* The complete forecasts a client may send, the exact one among them.
CompleteForecasts == {f \in Forecasts : f.lat # 0} \cup {ExactForecast}

\* The unattended game without persistence failures; players send complete
\* forecasts, exact or not.
NextScoring ==
  \/ \E u \in Users, s \in StormIds, tf \in Timeframes, f \in CompleteForecasts :
       SubmitPrediction(u, s, tf, f)
  \/ \E k \in 1..MaxRows : InsertPrediction(k)
  \/ TickIdle
  \/ \E i \in 1..MaxPasses : PassSelect(i)
  \/ \E i \in 1..MaxPasses : PassUpdate(i)
  \/ \E i \in 1..MaxPasses : PassStats(i)
  \/ \E i \in 1..MaxPasses : PassHasBadge(i)
  \/ \E i \in 1..MaxPasses : PassAward(i)

ScoringSpec == InitConc /\ [][NextScoring]_vars

\* -------------------------------------------------------------- leaderboard
\* LIMIT 100
LeaderboardLimit == 100

\* Variant: the WHERE clause lacks "storm_id = $1".
LeaderboardRows_AllStorms(tbl, stormId) ==
  {i \in 1..Len(tbl) : tbl[i].score # NULL}

\* FROM predictions WHERE storm_id = $1 AND score IS NOT NULL
LeaderboardRows(tbl, stormId) ==
  {i \in 1..Len(tbl) : tbl[i].storm_id = stormId /\ tbl[i].score # NULL}

\* SUM(COALESCE(score, 0)) over the rows ids
RECURSIVE SumCoalesced(_, _)
SumCoalesced(tbl, ids) ==
  IF ids = {} THEN 0
  ELSE LET i == CHOOSE x \in ids : TRUE
       IN  (IF tbl[i].score = NULL THEN 0 ELSE tbl[i].score)
           + SumCoalesced(tbl, ids \ {i})

\* GROUP BY username HAVING COUNT(score) > 0: one result row per username.
LeaderboardGroups(tbl, stormId) ==
  LET ids == LeaderboardRows(tbl, stormId)
      Of(u) == {i \in ids : tbl[i].username = u}
      Scored(u) == {i \in Of(u) : tbl[i].score # NULL}
  IN  { [username |-> u,
         total_score |-> SumCoalesced(tbl, Of(u)),
         predictions_count |-> Cardinality(Of(u)),
         scored_count |-> Cardinality(Scored(u))] :
          u \in {v \in {tbl[i].username : i \in ids} : Cardinality(Scored(v)) > 0} }

\* The values of a set of numbers, largest first.
RECURSIVE Descending(_)
Descending(S) ==
  IF S = {} THEN <<>>
  ELSE LET m == CHOOSE x \in S : \A y \in S : x >= y
       IN  <<m>> \o Descending(S \ {m})

\* Every order in which the elements of a set can be listed.
RECURSIVE Orderings(_)
Orderings(S) ==
  IF S = {} THEN {<<>>}
  ELSE UNION { {<<x>> \o r : r \in Orderings(S \ {x})} : x \in S }

\* ORDER BY total_score DESC: rows of equal total come in any order.
RECURSIVE OrderByTotal(_, _)
OrderByTotal(totals, groups) ==
  IF totals = <<>> THEN {<<>>}
  ELSE { a \o b : a \in Orderings({g \in groups : g.total_score = Head(totals)}),
                  b \in OrderByTotal(Tail(totals), groups) }

\* The result sets the leaderboard query may return for stormId.
Leaderboards(tbl, stormId) ==
  LET groups == LeaderboardGroups(tbl, stormId)
      totals == Descending({g.total_score : g \in groups})
  IN  { SubSeq(lb, 1, IF Len(lb) > LeaderboardLimit THEN LeaderboardLimit ELSE Len(lb)) :
          lb \in OrderByTotal(totals, groups) }

\* GET /api/leaderboard/:stormId
GetLeaderboard(stormId) ==
  /\ \E lb \in Leaderboards(predictions, stormId) :
       response' = [endpoint |-> "leaderboard", status |-> 200,
                    stormId |-> stormId, leaderboard |-> lb]
  /\ UNCHANGED <<now, uptime, HISTORICAL_STORMS, predictions, user_badges, inflight,
                 passes, errorLog, writes, evals, invoked, call>>

\* The query throws: the handler logs and answers 500.
GetLeaderboardFails(stormId) ==
  /\ CanFail
  /\ errorLog' = errorLog + 1
  /\ response' = [endpoint |-> "leaderboard", status |-> 500]
  /\ UNCHANGED <<now, uptime, HISTORICAL_STORMS, predictions, user_badges, inflight,
                 passes, writes, evals, invoked, call>>

\* The forecast most players send.
UsualForecast == CHOOSE f \in Forecasts : f.lat # 0

\* The actual values of the checkpoint label; the storms of earlier seasons
\* are given the tabulated positions of the first storm.
ActualAt(label) ==
  LET tfs == Katrina.timeframes
      i == CHOOSE k \in 1..Len(tfs) : tfs[k].timeframe = label /\ tfs[k].type = "prediction"
  IN  tfs[i]

\* A row as the INSERT leaves it and, when actualData is given, as the UPDATE
\* of a Scoring Pass leaves it.
StoredRow(id, username, stormId, label, f, actualData) ==
  LET fresh == [id |-> id,
                username |-> username, storm_id |-> stormId, timeframe |-> label,
                predicted_lat |-> f.lat, predicted_lon |-> f.lon,
                predicted_wind_speed |-> f.windSpeed, predicted_pressure |-> f.pressure,
                actual_lat |-> NULL, actual_lon |-> NULL,
                actual_wind_speed |-> NULL, actual_pressure |-> NULL,
                score |-> NULL]
  IN  IF actualData = NoData THEN fresh
      ELSE [fresh EXCEPT !.score = TotalScore(fresh, actualData),
                         !.actual_lat = actualData.lat,
                         !.actual_lon = actualData.lon,
                         !.actual_wind_speed = actualData.windSpeed,
                         !.actual_pressure = actualData.pressure]

\* alice has two scored rows and an unscored one for camille and a scored row
\* for hugo; bob one scored row for camille; carol only an unscored row for
\* camille; dave only a scored row for hugo. alice and bob have predicted the
\* 0600 checkpoint of the first storm.
BoardMixed ==
  << StoredRow(1, "alice", "camille-1969", "0600", UsualForecast, ActualAt("0600")),
     StoredRow(2, "alice", "camille-1969", "1200", ExactForecast, ActualAt("1200")),
     StoredRow(3, "alice", "camille-1969", "1800", UsualForecast, NoData),
     StoredRow(4, "bob", "camille-1969", "0600", ExactForecast, ActualAt("0600")),
     StoredRow(5, "carol", "camille-1969", "0600", UsualForecast, NoData),
     StoredRow(6, "dave", "hugo-1989", "0600", ExactForecast, ActualAt("0600")),
     StoredRow(7, "alice", "hugo-1989", "0600", UsualForecast, ActualAt("0600")),
     StoredRow(8, "alice", "katrina-2005", "0600", UsualForecast, NoData),
     StoredRow(9, "bob", "katrina-2005", "0600", ExactForecast, NoData) >>

\* alice and bob have the same total for camille, carol a higher one; alice
\* and bob have sent the same forecast for the 0600 checkpoint of the first storm.
BoardTied ==
  << StoredRow(1, "alice", "camille-1969", "0600", UsualForecast, ActualAt("0600")),
     StoredRow(2, "bob", "camille-1969", "0600", UsualForecast, ActualAt("0600")),
     StoredRow(3, "carol", "camille-1969", "0600", ExactForecast, ActualAt("0600")),
     StoredRow(4, "alice", "katrina-2005", "0600", UsualForecast, NoData),
     StoredRow(5, "bob", "katrina-2005", "0600", UsualForecast, NoData) >>

\* The forecast of the k-th player of a crowd: the exact position, each with
\* a different wind and pressure error, hence a different score.
CrowdForecast(k) ==
  [ExactForecast EXCEPT !.windSpeed = @ + ((k - 1) \div 2),
                        !.pressure = @ - 20 * ((k - 1) % 2)]

\* One player more than the leaderboard lists, each with one scored row for
\* camille; alice has predicted the 0600 checkpoint of the first storm.
BoardCrowd ==
  [k \in 1..(LeaderboardLimit + 2) |->
     IF k <= LeaderboardLimit + 1
     THEN StoredRow(k, "player" \o ToString(k), "camille-1969", "0600",
                    CrowdForecast(k), ActualAt("0600"))
     ELSE StoredRow(k, "alice", "katrina-2005", "0600", UsualForecast, NoData)]

BoardTables == {BoardMixed, BoardTied, BoardCrowd}

\* The storm ids a leaderboard is requested for.
BoardStormIds == {"camille-1969", "hugo-1989", "katrina-2005", "unknown"}

\* The process starts one polling interval before the first boundary of the
\* first storm, on a database that holds predictions.
InitBoard ==
  /\ now = 6 * PollsPerHour - 1
  /\ uptime = 0
  /\ HISTORICAL_STORMS = <<Katrina, Andrew>>
  /\ predictions \in BoardTables
  /\ user_badges = <<>>
  /\ writes = [k \in 1..Len(predictions) |-> 0]
  /\ evals = [k \in 1..Len(predictions) |-> 0]
  /\ inflight = <<>>
  /\ passes = [i \in 1..MaxPasses |-> IdlePass]
  /\ response = NoResponse
  /\ errorLog = 0
  /\ invoked = [k \in StormIds \X Timeframes |-> 0]
  /\ call = NoCall

\* The timer scores the predictions while clients read the leaderboard.
NextBoard ==
  \/ \E s \in BoardStormIds : GetLeaderboard(s)
  \/ \E s \in BoardStormIds : GetLeaderboardFails(s)
  \/ TickIdle
  \/ \E i \in 1..MaxPasses : PassSelect(i)
  \/ \E i \in 1..MaxPasses : PassUpdate(i)
  \/ \E i \in 1..MaxPasses : PassStats(i)
  \/ \E i \in 1..MaxPasses : PassHasBadge(i)
  \/ \E i \in 1..MaxPasses : PassAward(i)

BoardSpec == InitBoard /\ [][NextBoard]_vars

\* ------------------------------------------------- restart after an outage
\* The instants at which the process may come back: one polling interval
\* before the 0600 boundary of the first storm, at the boundary, one polling
\* interval before the end of the hour that follows it, and one polling
\* interval before the 1200 boundary.
RestartTimes ==
  { 6 * PollsPerHour - 1, 6 * PollsPerHour, 7 * PollsPerHour - 1, 12 * PollsPerHour - 1 }

\* The unscored predictions the database holds when the process comes back.
BacklogTables ==
  { << StoredRow(1, "alice", "katrina-2005", "0600", UsualForecast, NoData),
       StoredRow(2, "bob", "katrina-2005", "0600", ExactForecast, NoData) >>,
    << StoredRow(1, "alice", "katrina-2005", "0600", UsualForecast, NoData),
       StoredRow(2, "alice", "katrina-2005", "1200", UsualForecast, NoData) >> }

\* The checkpoints an operator asks to score.
RecoveryTimeframes == {"0600", "1200"}

InitRecovery ==
  /\ now \in RestartTimes
  /\ uptime = 0
  /\ HISTORICAL_STORMS = <<Katrina, Andrew>>
  /\ predictions \in BacklogTables
  /\ user_badges = <<>>
  /\ writes = [k \in 1..Len(predictions) |-> 0]
  /\ evals = [k \in 1..Len(predictions) |-> 0]
  /\ inflight = <<>>
  /\ passes = [i \in 1..MaxPasses |-> IdlePass]
  /\ response = NoResponse
  /\ errorLog = 0
  /\ invoked = [k \in StormIds \X Timeframes |-> 0]
  /\ call = NoCall

\* At most one Scoring Pass is running: a pass that starts now overlaps with
\* no more than one other.
AtMostOneRunning == Cardinality(FreeSlots) + 1 >= MaxPasses

\* The timer fires whether or not the previous checkAndScore has returned.
TickOverlapping == AtMostOneRunning /\ Tick

\* An operator triggers scoring by hand while a pass may be running.
AdminScoreOverlapping(stormId, timeframe) ==
  AtMostOneRunning /\ AdminScore(stormId, timeframe)

NextRecovery ==
  \/ TickOverlapping
  \/ \E s \in AdminStormIds, tf \in RecoveryTimeframes : AdminScoreOverlapping(s, tf)
  \/ \E i \in 1..MaxPasses : PassSelect(i)
  \/ \E i \in 1..MaxPasses : PassUpdate(i)
  \/ \E i \in 1..MaxPasses : PassStats(i)
  \/ \E i \in 1..MaxPasses : PassHasBadge(i)
  \/ \E i \in 1..MaxPasses : PassAward(i)

RecoverySpec == InitRecovery /\ [][NextRecovery]_vars

\* ------------------------------------------- game state and health requests
\* Number.prototype.toFixed(1) of a number of hours given in polling
\* intervals: the result in tenths, the nearest one, the larger of two equally
\* near, the sign apart.
ToFixed1(ticks) ==
  LET n == (Abs(ticks) * 20 + PollsPerHour) \div (2 * PollsPerHour)
  IN  IF ticks < 0 THEN 0 - n ELSE n

\* The cascade that computes nextUnlockHours, in polling intervals.
nextUnlockTicks(ticksSinceStart) ==
  IF ticksSinceStart < 6 * PollsPerHour THEN 6 * PollsPerHour - ticksSinceStart
  ELSE IF ticksSinceStart < 12 * PollsPerHour THEN 12 * PollsPerHour - ticksSinceStart
  ELSE IF ticksSinceStart < 18 * PollsPerHour THEN 18 * PollsPerHour - ticksSinceStart
  ELSE IF ticksSinceStart < 24 * PollsPerHour THEN 24 * PollsPerHour - ticksSinceStart
  ELSE 0

\* Variant: the handler lacks the test of a null storm; reading gameStart of
\* null throws and the catch answers 500.
GetGameState_NoNullTest ==
  LET currentStorm == getCurrentStorm(HISTORICAL_STORMS, now)
  IN  /\ IF currentStorm = NoStorm
         THEN /\ response' = [endpoint |-> "game/state", status |-> 500]
              /\ errorLog' = errorLog + 1
         ELSE /\ response' =
                   [endpoint |-> "game/state", status |-> 200,
                    storm |-> currentStorm.id,
                    timeframes |-> currentStorm.timeframes,
                    activeTimeframe |-> getActiveTimeframe(currentStorm, now),
                    hoursSinceStart |-> ToFixed1(now - currentStorm.gameStart),
                    nextUnlockHours |-> ToFixed1(nextUnlockTicks(now - currentStorm.gameStart))]
              /\ UNCHANGED errorLog
      /\ UNCHANGED <<now, uptime, HISTORICAL_STORMS, predictions, user_badges, inflight,
                     passes, writes, evals, invoked, call>>

\* GET /api/game/state
GetGameState ==
  LET currentStorm == getCurrentStorm(HISTORICAL_STORMS, now)
  IN  /\ IF currentStorm = NoStorm
         THEN response' = [endpoint |-> "game/state", status |-> 404]
         ELSE response' =
                [endpoint |-> "game/state", status |-> 200,
                 storm |-> currentStorm.id,
                 timeframes |-> currentStorm.timeframes,
                 activeTimeframe |-> getActiveTimeframe(currentStorm, now),
                 hoursSinceStart |-> ToFixed1(now - currentStorm.gameStart),
                 nextUnlockHours |-> ToFixed1(nextUnlockTicks(now - currentStorm.gameStart))]
      /\ UNCHANGED <<now, uptime, HISTORICAL_STORMS, predictions, user_badges, inflight,
                     passes, errorLog, writes, evals, invoked, call>>

\* GET /api/health: the count query succeeds.
GetHealth ==
  /\ response' = [endpoint |-> "health", status |-> 200, health |-> "healthy",
                  predictionsCount |-> Len(predictions),
                  stormsLoaded |-> Len(HISTORICAL_STORMS),
                  database |-> "connected"]
  /\ UNCHANGED <<now, uptime, HISTORICAL_STORMS, predictions, user_badges, inflight,
                 passes, errorLog, writes, evals, invoked, call>>

\* GET /api/health: the count query throws and the catch answers.
GetHealthFails ==
  /\ response' = [endpoint |-> "health", status |-> 200, health |-> "degraded",
                  database |-> "error"]
  /\ UNCHANGED <<now, uptime, HISTORICAL_STORMS, predictions, user_badges, inflight,
                 passes, errorLog, writes, evals, invoked, call>>

\* The schedules after loadStorms: those of storms.json, or none when the
\* file could not be read or parsed.
LoadedSchedules == Schedules \cup {<<>>}

\* The process starts on a database that is empty or, when no schedule was
\* loaded, may hold unscored predictions of an earlier run.
InitService ==
  /\ now \in StartTimes
  /\ uptime = 0
  /\ HISTORICAL_STORMS \in LoadedSchedules
  /\ predictions \in IF HISTORICAL_STORMS = <<>> THEN {<<>>} \cup BacklogTables ELSE {<<>>}
  /\ user_badges = <<>>
  /\ writes = [k \in 1..Len(predictions) |-> 0]
  /\ evals = [k \in 1..Len(predictions) |-> 0]
  /\ inflight = <<>>
  /\ passes = [i \in 1..MaxPasses |-> IdlePass]
  /\ response = NoResponse
  /\ errorLog = 0
  /\ invoked = [k \in StormIds \X Timeframes |-> 0]
  /\ call = NoCall

\* The game with its read-only requests: players submit and ask for the game
\* state, a monitor asks for the health, the timer polls.
NextService ==
  \/ \E u \in Users, s \in StormIds, tf \in Timeframes, f \in Forecasts :
       SubmitPrediction(u, s, tf, f)
  \/ \E k \in 1..MaxRows : InsertPrediction(k)
  \/ GetGameState
  \/ GetHealth
  \/ GetHealthFails
  \/ TickIdle
  \/ \E i \in 1..MaxPasses : PassSelect(i)
  \/ \E i \in 1..MaxPasses : PassUpdate(i)
  \/ \E i \in 1..MaxPasses : PassStats(i)
  \/ \E i \in 1..MaxPasses : PassHasBadge(i)
  \/ \E i \in 1..MaxPasses : PassAward(i)

ServiceSpec == InitService /\ [][NextService]_vars

\* ------------------------------------------------ the last checkpoint, "0000"
\* The process starts one polling interval before the 24 h boundary of the
\* first storm, while its checkpoint "0000" is open; an operator triggers
\* scoring by hand for any of the four labels.
InitMidnight ==
  /\ Init
  /\ now = 24 * PollsPerHour - 1

NextMidnight ==
  \/ \E u \in Users, s \in StormIds, tf \in Timeframes :
       SubmitPrediction(u, s, tf, UsualForecast)
  \/ \E k \in 1..MaxRows : InsertPrediction(k)
  \/ TickIdle
  \/ \E s \in AdminStormIds, tf \in Timeframes : AdminScoreOverlapping(s, tf)
  \/ \E i \in 1..MaxPasses : PassSelect(i)
  \/ \E i \in 1..MaxPasses : PassUpdate(i)
  \/ \E i \in 1..MaxPasses : PassStats(i)
  \/ \E i \in 1..MaxPasses : PassHasBadge(i)
  \/ \E i \in 1..MaxPasses : PassAward(i)

MidnightSpec == InitMidnight /\ [][NextMidnight]_vars

\* ------------------------------------------------- forecasts that earn badges
\* A forecast of the 0600 checkpoint of the first storm that scores 1777.
LuckyForecast == [lat |-> 260, lon |-> 0 - 814, windSpeed |-> 100, pressure |-> 969]

BadgeForecasts == {UsualForecast, ExactForecast, LuckyForecast}

\* The process starts on a database of earlier seasons; players send
\* forecasts that score 1860, 2000 and 1777, and the timer scores them.
NextBadges ==
  \/ \E u \in Users, s \in StormIds, tf \in Timeframes, f \in BadgeForecasts :
       SubmitPrediction(u, s, tf, f)
  \/ \E k \in 1..MaxRows : InsertPrediction(k)
  \/ TickIdle
  \/ \E i \in 1..MaxPasses : PassSelect(i)
  \/ \E i \in 1..MaxPasses : PassUpdate(i)
  \/ \E i \in 1..MaxPasses : PassStats(i)
  \/ \E i \in 1..MaxPasses : PassHasBadge(i)
  \/ \E i \in 1..MaxPasses : PassAward(i)

BadgesSpec == InitSeeded /\ [][NextBadges]_vars

\* ------------------------------------------------ game-logic module functions
gameVars == <<now, uptime, HISTORICAL_STORMS, predictions, user_badges, inflight, passes,
              response, errorLog, writes, evals, invoked>>

\* The instants a clock function is evaluated at: from one hour before the
\* first storm starts to one hour after the second one ends.
ClockTimes == (0 - PollsPerHour)..(49 * PollsPerHour)

\* A storm object that has no timeframes property.
StormWithoutTimeframes == [id |-> "test"]

\* A storm whose window overlaps the first storm's.
Overlap ==
  [id |-> "overlap", gameStart |-> 12 * PollsPerHour, gameEnd |-> 36 * PollsPerHour,
   timeframes |-> Andrew.timeframes]

StormArgs == {NoStorm, StormWithoutTimeframes, Katrina, Andrew}

ScheduleArgs ==
  { UndefinedArray, ArrayOf(<<>>), ArrayOf(<<Katrina>>), ArrayOf(<<Andrew>>),
    ArrayOf(<<Katrina, Andrew>>), ArrayOf(<<Andrew, Katrina>>),
    ArrayOf(<<Katrina, Overlap>>), ArrayOf(<<Overlap, Katrina>>) }

GetActiveTimeframeCalls ==
  { [fn |-> "getActiveTimeframe", storm |-> st, currentTime |-> t, done |-> FALSE] :
      st \in StormArgs, t \in ClockTimes }

GetCurrentStormCalls ==
  { [fn |-> "getCurrentStorm", historicalStorms |-> a, currentTime |-> t, done |-> FALSE] :
      a \in ScheduleArgs, t \in ClockTimes }

\* getActiveTimeframe(storm, currentTime) returns.
ApplyGetActiveTimeframe ==
  /\ call.fn = "getActiveTimeframe"
  /\ ~call.done
  /\ call' = [fn |-> call.fn, storm |-> call.storm, currentTime |-> call.currentTime,
              done |-> TRUE,
              result |-> getActiveTimeframe(call.storm, call.currentTime)]
  /\ UNCHANGED gameVars

\* getCurrentStorm(historicalStorms, currentTime) returns.
ApplyGetCurrentStorm ==
  /\ call.fn = "getCurrentStorm"
  /\ ~call.done
  /\ call' = [fn |-> call.fn, historicalStorms |-> call.historicalStorms,
              currentTime |-> call.currentTime, done |-> TRUE,
              result |-> getCurrentStormArg(call.historicalStorms, call.currentTime)]
  /\ UNCHANGED gameVars

\* The badge ids of the rule table, and one that is not in it.
RuleBadgeIds ==
  { "first_prediction", "veteran_10", "veteran_50", "veteran_100", "veteran_500",
    "points_5k", "points_25k", "points_50k", "points_100k",
    "storm_survivor_5", "storm_survivor_12",
    "diamond_prediction", "oracle", "perfect_storm", "lucky_number" }

BadgeIdArgs == RuleBadgeIds \cup {"unknown_badge"}

StatNames == {"totalPredictions", "totalScore", "uniqueStorms", "currentScore"}

\* Values of each statistic at, one below and one above every threshold.
Counts == {0, 1, 2, 9, 10, 11, 49, 50, 51, 99, 100, 101, 499, 500, 501}

Sums ==
  {0, 4999, 5000, 5001, 24999, 25000, 25001, 49999, 50000, 50001, 99999, 100000, 100001}

StormCounts == {0, 4, 5, 6, 11, 12, 13}

\* Every score a prediction can get.
Scores == 0..2000

FullStats(tp, ts, us, cs) ==
  [totalPredictions |-> tp, totalScore |-> ts, uniqueStorms |-> us, currentScore |-> cs]

\* Stats objects that lack some of the statistics; those present meet a rule.
PartialStats ==
  { [name \in present |-> FullStats(10, 5000, 5, 2000)[name]] : present \in SUBSET StatNames }
  \cup
  { [name \in present |-> FullStats(1, 100000, 12, 777)[name]] : present \in SUBSET StatNames }

StatsArgs ==
  { FullStats(tp, ts, us, cs) :
      tp \in Counts, ts \in Sums, us \in StormCounts, cs \in {0, 2000} }
  \cup { FullStats(1, 1500, 1, cs) : cs \in Scores }
  \cup PartialStats

ShouldAwardBadgeCalls ==
  { [fn |-> "shouldAwardBadge", stats |-> st, badgeId |-> b, done |-> FALSE] :
      st \in StatsArgs, b \in BadgeIdArgs }

\* The stats rows the evaluator's query may return, the score of the
\* prediction just scored, and the user's badges before the evaluation.
EvaluatorStats ==
  { [totalPredictions |-> 1, totalScore |-> 1500, uniqueStorms |-> 1],
    [totalPredictions |-> 10, totalScore |-> 5000, uniqueStorms |-> 5],
    [totalPredictions |-> 3, totalScore |-> 100000, uniqueStorms |-> 12] }

HeldArgs == { <<>>, <<[username |-> "alice", badge_id |-> "lucky_number"]>> }

\* The stats rows at, one below and one above every threshold, and the
\* scores at and next to every score rule.
ThresholdStats ==
  { [totalPredictions |-> tp, totalScore |-> ts, uniqueStorms |-> us] :
      tp \in Counts, ts \in Sums, us \in StormCounts }

RuleScores == {0, 1, 777, 1777, 1778, 1899, 1900, 1949, 1950, 1999, 2000}

CheckAndAwardBadgesCalls ==
  { [fn |-> "checkAndAwardBadges", stats |-> st, score |-> sc, held |-> h, done |-> FALSE] :
      st \in EvaluatorStats, sc \in Scores, h \in HeldArgs }
  \cup
  { [fn |-> "checkAndAwardBadges", stats |-> st, score |-> sc, held |-> h, done |-> FALSE] :
      st \in ThresholdStats, sc \in RuleScores, h \in HeldArgs }

\* The distance errors calculateTrackScore is evaluated at: every whole
\* nautical mile of the table, in hundredths.
TrackErrors == {100 * k : k \in 0..(Len(TrackDecayNM) - 1)}

\* The wind and pressure errors calculateIntensityScore is evaluated at.
IntensityErrors == (1 - Len(WindDecay))..(Len(WindDecay) - 1)

CalculateTrackScoreCalls ==
  { [fn |-> "calculateTrackScore", distanceErrorNM |-> d, done |-> FALSE] :
      d \in TrackErrors }

CalculateIntensityScoreCalls ==
  { [fn |-> "calculateIntensityScore", windError |-> w, pressureError |-> pr,
     done |-> FALSE] : w \in IntensityErrors, pr \in IntensityErrors }

CalculateDistanceCalls ==
  { [fn |-> "calculateDistance", a |-> a, b |-> b, done |-> FALSE] :
      a \in Points, b \in Points }

\* calculateTrackScore(distanceErrorNM) returns.
ApplyCalculateTrackScore ==
  /\ call.fn = "calculateTrackScore"
  /\ ~call.done
  /\ call' = [fn |-> call.fn, distanceErrorNM |-> call.distanceErrorNM, done |-> TRUE,
              result |-> calculateTrackScore(call.distanceErrorNM)]
  /\ UNCHANGED gameVars

\* calculateIntensityScore(windError, pressureError) returns.
ApplyCalculateIntensityScore ==
  /\ call.fn = "calculateIntensityScore"
  /\ ~call.done
  /\ call' = [fn |-> call.fn, windError |-> call.windError,
              pressureError |-> call.pressureError, done |-> TRUE,
              result |-> calculateIntensityScore(call.windError, call.pressureError)]
  /\ UNCHANGED gameVars

\* calculateDistance(lat1, lon1, lat2, lon2) returns.
ApplyCalculateDistance ==
  /\ call.fn = "calculateDistance"
  /\ ~call.done
  /\ call' = [fn |-> call.fn, a |-> call.a, b |-> call.b, done |-> TRUE,
              result |-> calculateDistance(call.a[1], call.a[2], call.b[1], call.b[2])]
  /\ UNCHANGED gameVars

\* ---- rotation by elapsed days or weeks (the server without game windows)
\* new Date('2025-01-01T00:00:00Z'): midnight of a day, here the day on which
\* the first storm of the model starts at 06:00.
referenceDate == 0 - 6 * PollsPerHour

DayLength == 24 * PollsPerHour

WeekLength == 7 * DayLength

\* JavaScript's %: the remainder takes the sign of the dividend.
JsRemainder(a, n) == IF a >= 0 THEN a % n ELSE 0 - ((0 - a) % n)

\* Variant: Math.round where the code takes Math.floor.
ElapsedPeriods_Rounded(t, period) == (t - referenceDate + period \div 2) \div period

\* Math.floor((now - referenceDate) / period)
ElapsedPeriods(t, period) == (t - referenceDate) \div period

\* HISTORICAL_STORMS[currentStormIndex]; an index outside the array gives
\* undefined.
StormAt(storms, index) ==
  IF index >= 0 /\ index < Len(storms) THEN storms[index + 1] ELSE NoStorm

\* getCurrentStorm of the server with the 24-hour rotation.
getCurrentDayStorm(storms, t) ==
  IF Len(storms) = 0 THEN NoStorm
  ELSE StormAt(storms, JsRemainder(ElapsedPeriods(t, DayLength), Len(storms)))

\* getCurrentWeekStorm of the server with the weekly rotation.
getCurrentWeekStorm(storms, t) ==
  IF Len(storms) = 0 THEN NoStorm
  ELSE StormAt(storms, JsRemainder(ElapsedPeriods(t, WeekLength), Len(storms)))

Irma == [id |-> "irma-2017"]

Wilma == [id |-> "wilma-2005"]

Ian == [id |-> "ian-2022"]

\* The schedules the rotation is evaluated on: one, two and three storms.
RotationSchedules == { <<Irma>>, <<Irma, Wilma>>, <<Irma, Wilma, Ian>> }

\* From one day before the reference date to the end of the fourth day.
DayRotationTimes == (referenceDate - DayLength)..(referenceDate + 4 * DayLength)

\* From one day before the reference date to the end of the fourth week.
WeekRotationTimes == (referenceDate - DayLength)..(referenceDate + 4 * WeekLength)

GetCurrentDayStormCalls ==
  { [fn |-> "getCurrentDayStorm", storms |-> st, period |-> DayLength, now |-> t,
     done |-> FALSE] : st \in RotationSchedules, t \in DayRotationTimes }

GetCurrentWeekStormCalls ==
  { [fn |-> "getCurrentWeekStorm", storms |-> st, period |-> WeekLength, now |-> t,
     done |-> FALSE] : st \in RotationSchedules, t \in WeekRotationTimes }

\* getCurrentStorm() of the 24-hour rotation returns.
ApplyGetCurrentDayStorm ==
  /\ call.fn = "getCurrentDayStorm"
  /\ ~call.done
  /\ call' = [fn |-> call.fn, storms |-> call.storms, period |-> call.period,
              now |-> call.now, done |-> TRUE,
              result |-> getCurrentDayStorm(call.storms, call.now)]
  /\ UNCHANGED gameVars

\* getCurrentWeekStorm() returns.
ApplyGetCurrentWeekStorm ==
  /\ call.fn = "getCurrentWeekStorm"
  /\ ~call.done
  /\ call' = [fn |-> call.fn, storms |-> call.storms, period |-> call.period,
              now |-> call.now, done |-> TRUE,
              result |-> getCurrentWeekStorm(call.storms, call.now)]
  /\ UNCHANGED gameVars

\* shouldAwardBadge(stats, badgeId) returns.
ApplyShouldAwardBadge ==
  /\ call.fn = "shouldAwardBadge"
  /\ ~call.done
  /\ call' = [fn |-> call.fn, stats |-> call.stats, badgeId |-> call.badgeId,
              done |-> TRUE, result |-> shouldAwardBadge(call.stats, call.badgeId)]
  /\ UNCHANGED gameVars

\* The rule cascade of checkAndAwardBadges runs for alice on the stats row
\* and the score given; result is the user_badges table it leaves.
ApplyCheckAndAwardBadges ==
  /\ call.fn = "checkAndAwardBadges"
  /\ ~call.done
  /\ call' = [fn |-> call.fn, stats |-> call.stats, score |-> call.score,
              held |-> call.held, done |-> TRUE,
              result |-> AwardAll(call.held, "alice",
                                  QualifyingBadges(call.stats, call.score))]
  /\ UNCHANGED gameVars

\* A test process has loaded the module and is about to call one function.
InitLogic ==
  /\ now = 0
  /\ uptime = 0
  /\ HISTORICAL_STORMS = <<Katrina, Andrew>>
  /\ predictions = <<>>
  /\ user_badges = <<>>
  /\ inflight = <<>>
  /\ passes = [i \in 1..MaxPasses |-> IdlePass]
  /\ response = NoResponse
  /\ errorLog = 0
  /\ writes = <<>>
  /\ evals = <<>>
  /\ invoked = [k \in StormIds \X Timeframes |-> 0]
  /\ \/ call \in GetActiveTimeframeCalls
     \/ call \in GetCurrentStormCalls
     \/ call \in ShouldAwardBadgeCalls
     \/ call \in CheckAndAwardBadgesCalls
     \/ call \in CalculateTrackScoreCalls
     \/ call \in CalculateIntensityScoreCalls
     \/ call \in CalculateDistanceCalls
     \/ call \in GetCurrentDayStormCalls
     \/ call \in GetCurrentWeekStormCalls

NextLogic ==
  \/ ApplyGetActiveTimeframe
  \/ ApplyGetCurrentStorm
  \/ ApplyShouldAwardBadge
  \/ ApplyCheckAndAwardBadges
  \/ ApplyCalculateTrackScore
  \/ ApplyCalculateIntensityScore
  \/ ApplyCalculateDistance
  \/ ApplyGetCurrentDayStorm
  \/ ApplyGetCurrentWeekStorm

LogicSpec == InitLogic /\ [][NextLogic]_vars

\* ------------------------------------------------------------------- claims
RowIds == 1..Len(predictions)

\* The Game Clock reports stormId as the active storm and timeframe as its
\* active checkpoint at time t.
IsActive(stormId, timeframe, t) ==
  LET currentStorm == getCurrentStorm(HISTORICAL_STORMS, t)
  IN  /\ currentStorm # NoStorm
      /\ currentStorm.id = stormId
      /\ getActiveTimeframe(currentStorm, t) = timeframe

Rejected400 == [endpoint |-> "predictions", status |-> 400]

\* C1: a submission is accepted, and a Prediction row created, only for the
\* storm and the checkpoint the Game Clock reports as active at request time;
\* a submission naming any other storm or checkpoint (or made when the active
\* checkpoint is null) is answered 400 and leaves the predictions unchanged.
C1_SubmissionGatedByClock ==
  [][ /\ Len(inflight') > Len(inflight) =>
           LET q == inflight'[Len(inflight')]
           IN  IsActive(q.stormId, q.timeframe, now)
      /\ Len(predictions') > Len(predictions) =>
           LET r == predictions'[Len(predictions')]
           IN  IsActive(r.storm_id, r.timeframe, now)
      /\ \/ /\ response' = Rejected400
            /\ predictions' = predictions
            /\ inflight' = inflight
         \/ \A u \in Users, s \in StormIds, tf \in Timeframes, f \in Forecasts :
              ~(SubmitPrediction(u, s, tf, f) /\ ~IsActive(s, tf, now))
    ]_vars

\* A submission has just been rejected while a checkpoint is open.
C1_Witness ==
  /\ response = Rejected400
  /\ predictions = <<>>
  /\ inflight = <<>>
  /\ getActiveTimeframe(getCurrentStorm(HISTORICAL_STORMS, now), now) = "0600"

SameTriple(a, b) ==
  a.username = b.username /\ a.storm_id = b.storm_id /\ a.timeframe = b.timeframe

UniqueTriples(tbl) ==
  \A i, j \in 1..Len(tbl) : SameTriple(tbl[i], tbl[j]) => i = j

Stored(tbl, req) ==
  \E i \in 1..Len(tbl) :
    /\ tbl[i].username = req.username
    /\ tbl[i].storm_id = req.stormId
    /\ tbl[i].timeframe = req.timeframe

\* C2: there is never more than one Prediction per (username, stormId,
\* checkpoint); when the INSERT of a submission executes (persistence working)
\* and a row for its triple is already stored, the request is answered 400
\* and the table is unchanged.
C2_OnePredictionPerTriple ==
  [][ /\ UniqueTriples(predictions')
      /\ \A k \in 1..Len(inflight) :
           ( /\ inflight' = RemoveAt(inflight, k)
             /\ errorLog' = errorLog
             /\ Stored(predictions, inflight[k]) ) =>
             /\ response' = Rejected400
             /\ predictions' = predictions
    ]_vars

\* Two submissions for one triple were accepted concurrently and the first
\* is stored while the second still awaits its INSERT.
C2_Witness ==
  \E k \in 1..Len(inflight) : Stored(predictions, inflight[k])

\* C3: each Prediction row is written by at most one Scoring Pass and the
\* Badge Evaluator is invoked at most once for it, also when passes for the
\* same storm and checkpoint interleave.
C3_RowScoredOnce ==
  \A id \in RowIds : writes[id] <= 1 /\ evals[id] <= 1

\* C4: when the UPDATE of one prediction of a batch fails, the pass goes on
\* with the next prediction of the batch.
C4_RowFailureIsolated ==
  [][ \A i \in 1..MaxPasses :
        ( /\ passes[i].pc = "update"
          /\ Len(passes[i].rows) > 1
          /\ passes'[i] # passes[i]
          /\ errorLog' = errorLog + 1 ) =>
          /\ passes'[i].pc = "update"
          /\ passes'[i].rows = Tail(passes[i].rows)
    ]_vars

ClosingHour(timeframe) ==
  CASE timeframe = "0600" -> 6
    [] timeframe = "1200" -> 12
    [] timeframe = "1800" -> 18
    [] timeframe = "0000" -> 24

LoadedIds == {HISTORICAL_STORMS[i].id : i \in 1..Len(HISTORICAL_STORMS)}

StormById(stormId) ==
  HISTORICAL_STORMS[CHOOSE i \in 1..Len(HISTORICAL_STORMS) : HISTORICAL_STORMS[i].id = stormId]

\* The closing boundary of a checkpoint, in polling intervals.
Closing(stormId, timeframe) ==
  StormById(stormId).gameStart + ClosingHour(timeframe) * PollsPerHour

\* C5: with persistence never failing, once the one-hour scoring window after
\* a checkpoint's closing boundary has passed and no pass is running, every
\* Prediction stored for that checkpoint has been scored.
C5_EveryCheckpointScored ==
  \A id \in RowIds :
    ( /\ errorLog = 0
      /\ AllIdle
      /\ now >= Closing(predictions[id].storm_id, predictions[id].timeframe) + PollsPerHour )
    => predictions[id].score # NULL

\* C6 (as stated): the timer starts the Scoring Pass of a checkpoint at most once.
C6_InvokedOncePerBoundary ==
  \A k \in LoadedIds \X Timeframes : invoked[k] <= 1

\* C6 (amended): a tick starts the Scoring Pass for (storm, checkpoint) if and
\* only if that storm is the one the Game Clock reports and the time since
\* its gameStart lies in the half-open window of one hour that begins at the
\* checkpoint's closing boundary; so the pass is started once per polling
\* interval of that hour.
C6_InvokedEachTickOfHourWindow ==
  [][ now' = now + 1 =>
        \A k \in LoadedIds \X Timeframes :
          LET inWindow ==
                /\ getCurrentStorm(HISTORICAL_STORMS, now').id = k[1]
                /\ now' >= Closing(k[1], k[2])
                /\ now' < Closing(k[1], k[2]) + PollsPerHour
          IN  invoked'[k] = invoked[k] + (IF inWindow THEN 1 ELSE 0)
    ]_vars

\* The timer has started the pass of one checkpoint on two ticks.
C6_Witness ==
  invoked[<<"katrina-2005", "0600">>] >= 2

\* C7: a Prediction carries a score only at or after the closing boundary of
\* its checkpoint.
C7_ScoredOnlyWhenClosed ==
  \A id \in RowIds :
    predictions[id].score # NULL =>
      now >= Closing(predictions[id].storm_id, predictions[id].timeframe)

\* C8: once a Prediction has a score, no step changes its score or its
\* actual_* fields.
C8_NeverRescored ==
  [][ \A id \in RowIds :
        predictions[id].score # NULL =>
          /\ id <= Len(predictions')
          /\ predictions'[id].score = predictions[id].score
          /\ predictions'[id].actual_lat = predictions[id].actual_lat
          /\ predictions'[id].actual_lon = predictions[id].actual_lon
          /\ predictions'[id].actual_wind_speed = predictions[id].actual_wind_speed
          /\ predictions'[id].actual_pressure = predictions[id].actual_pressure
    ]_vars

\* A scored Prediction has been written a second time.
C8_Witness ==
  \E id \in RowIds : writes[id] >= 2 /\ predictions[id].score # NULL

\* C9: user_badges never holds two records for one (username, badge_id).
C9_OneBadgePerUser ==
  \A i, j \in 1..Len(user_badges) :
    ( /\ user_badges[i].username = user_badges[j].username
      /\ user_badges[i].badge_id = user_badges[j].badge_id ) => i = j

\* An evaluation found the badge absent and is about to insert it, and the
\* user has received it from a concurrent evaluation in the meantime.
C9_Witness ==
  \E i \in 1..MaxPasses :
    /\ passes[i].pc = "award"
    /\ \E j \in 1..Len(user_badges) :
         /\ user_badges[j].username = Head(passes[i].rows).username
         /\ user_badges[j].badge_id = Head(passes[i].todo)

Running(i) == passes[i].pc \in {"update", "stats", "has", "award"}

\* C10: when Scoring Passes run one after the other, a pass selects exactly
\* the rows of its storm and checkpoint that are still unscored, every row it
\* has yet to update is unscored, and no row is updated or badge-evaluated
\* more than once: a re-run after a complete run does nothing, a re-run after
\* a run that stopped part-way handles exactly the remaining rows.
C10_SequentialRerun ==
  /\ \A id \in RowIds : writes[id] <= 1 /\ evals[id] <= 1 /\ evals[id] <= writes[id]
  /\ \A i \in 1..MaxPasses :
       Running(i) =>
         /\ \A k \in 1..Len(passes[i].rows) :
              /\ passes[i].rows[k].storm_id = passes[i].stormId
              /\ passes[i].rows[k].timeframe = passes[i].timeframe
              /\ (k > 1 \/ passes[i].pc = "update") =>
                   /\ predictions[passes[i].rows[k].id].score = NULL
                   /\ writes[passes[i].rows[k].id] = 0
         /\ \A id \in RowIds :
              ( /\ predictions[id].storm_id = passes[i].stormId
                /\ predictions[id].timeframe = passes[i].timeframe
                /\ predictions[id].score = NULL
                /\ id <= passes[i].rows[Len(passes[i].rows)].id ) =>
                \E k \in 1..Len(passes[i].rows) : passes[i].rows[k].id = id

\* A timer pass stopped part-way after scoring one of two predictions of a
\* checkpoint, and the next timer pass has selected just the other one.
C10_Witness ==
  /\ invoked[<<"katrina-2005", "0600">>] = 2
  /\ \E i \in 1..MaxPasses :
       /\ passes[i].pc = "update"
       /\ Len(passes[i].rows) = 1
       /\ \E id \in RowIds :
            /\ id # passes[i].rows[1].id
            /\ predictions[id].storm_id = passes[i].stormId
            /\ predictions[id].timeframe = passes[i].timeframe
            /\ predictions[id].score # NULL

\* The call of fn under evaluation has returned.
Returned(fn) == call.fn = fn /\ call.done

\* C15: getActiveTimeframe returns null for a null storm or a storm without
\* timeframes; otherwise, with h the time from gameStart, null for h < 0,
\* "0600" for 0 <= h < 6 h, "1200" for 6 <= h < 12 h, "1800" for
\* 12 <= h < 18 h, "0000" for 18 <= h < 24 h, and null for h >= 24 h.
C15_ActiveTimeframeTable ==
  Returned("getActiveTimeframe") =>
    IF call.storm = NoStorm \/ call.storm = StormWithoutTimeframes
    THEN call.result = NoTimeframe
    ELSE LET h == call.currentTime - call.storm.gameStart
             hour == PollsPerHour
         IN  /\ h < 0 => call.result = NoTimeframe
             /\ (0 <= h /\ h < 6 * hour) => call.result = "0600"
             /\ (6 * hour <= h /\ h < 12 * hour) => call.result = "1200"
             /\ (12 * hour <= h /\ h < 18 * hour) => call.result = "1800"
             /\ (18 * hour <= h /\ h < 24 * hour) => call.result = "0000"
             /\ h >= 24 * hour => call.result = NoTimeframe

\* At exactly six hours after gameStart the function has answered "1200".
C15_Witness ==
  /\ Returned("getActiveTimeframe")
  /\ call.storm = Andrew
  /\ call.currentTime = Andrew.gameStart + 6 * PollsPerHour
  /\ call.result = "1200"

\* C16: getCurrentStorm returns null if and only if the schedule is empty or
\* undefined; otherwise the first storm in schedule order whose window
\* [gameStart, gameEnd) contains now, or the first storm of the schedule
\* when no window contains now.
C16_CurrentStormFirstMatchOrFallback ==
  Returned("getCurrentStorm") =>
    LET a == call.historicalStorms
        storms == a.items
        t == call.currentTime
        Contains(i) == storms[i].gameStart <= t /\ t < storms[i].gameEnd
        matches == {i \in 1..Len(storms) : Contains(i)}
    IN  /\ (call.result = NoStorm) <=> (~a.defined \/ storms = <<>>)
        /\ (a.defined /\ storms # <<>>) =>
             IF matches # {}
             THEN \E i \in matches :
                    /\ \A j \in matches : i <= j
                    /\ call.result = storms[i]
             ELSE call.result = storms[1]

\* At the instant the first storm's window ends the function has answered
\* the second storm.
C16_Witness ==
  /\ Returned("getCurrentStorm")
  /\ call.historicalStorms = ArrayOf(<<Katrina, Andrew>>)
  /\ call.currentTime = Katrina.gameEnd
  /\ call.result = Andrew

\* The exact-match rules: badge id, the statistic it reads, its threshold.
ExactRules ==
  { <<"first_prediction", "totalPredictions", 1>>,
    <<"veteran_10", "totalPredictions", 10>>,
    <<"veteran_50", "totalPredictions", 50>>,
    <<"veteran_100", "totalPredictions", 100>>,
    <<"veteran_500", "totalPredictions", 500>>,
    <<"storm_survivor_5", "uniqueStorms", 5>>,
    <<"storm_survivor_12", "uniqueStorms", 12>>,
    <<"perfect_storm", "currentScore", 2000>> }

\* The on-or-above rules.
AtLeastRules ==
  { <<"points_5k", "totalScore", 5000>>,
    <<"points_25k", "totalScore", 25000>>,
    <<"points_50k", "totalScore", 50000>>,
    <<"points_100k", "totalScore", 100000>>,
    <<"diamond_prediction", "currentScore", 1900>>,
    <<"oracle", "currentScore", 1950>> }

\* C17: for an exact-match rule, shouldAwardBadge is true if and only if the
\* statistic the rule reads equals the threshold.
C17_ExactRules ==
  Returned("shouldAwardBadge") =>
    \A r \in ExactRules :
      (call.badgeId = r[1] /\ r[2] \in DOMAIN call.stats) =>
        (call.result <=> call.stats[r[2]] = r[3])

\* veteran_10 has been refused to a user with eleven predictions.
C17_Witness ==
  /\ Returned("shouldAwardBadge")
  /\ call.badgeId = "veteran_10"
  /\ "totalPredictions" \in DOMAIN call.stats
  /\ call.stats.totalPredictions = 11
  /\ call.result = FALSE

\* C18: for an on-or-above rule, shouldAwardBadge is true if and only if the
\* statistic the rule reads is at or above the threshold.
C18_AtLeastRules ==
  Returned("shouldAwardBadge") =>
    \A r \in AtLeastRules :
      (call.badgeId = r[1] /\ r[2] \in DOMAIN call.stats) =>
        (call.result <=> call.stats[r[2]] >= r[3])

\* points_5k has been granted to a user whose total is above 5000.
C18_Witness ==
  /\ Returned("shouldAwardBadge")
  /\ call.badgeId = "points_5k"
  /\ "totalScore" \in DOMAIN call.stats
  /\ call.stats.totalScore = 5001
  /\ call.result = TRUE

\* C19: for every score in 0..2000, shouldAwardBadge answers true for
\* lucky_number if and only if the score is 777 or 1777, and the evaluator
\* leaves the user holding lucky_number, when the user did not hold it
\* before, under the same condition.
C19_LuckyNumber ==
  /\ ( /\ Returned("shouldAwardBadge")
       /\ call.badgeId = "lucky_number"
       /\ "currentScore" \in DOMAIN call.stats
       /\ call.stats.currentScore \in Scores ) =>
       (call.result <=> call.stats.currentScore \in {777, 1777})
  /\ (Returned("checkAndAwardBadges") /\ call.held = <<>>) =>
       (hasBadge(call.result, "alice", "lucky_number") <=> call.score \in {777, 1777})
  /\ (Returned("checkAndAwardBadges") /\ call.held # <<>>) =>
       /\ hasBadge(call.result, "alice", "lucky_number")
       /\ Cardinality({i \in 1..Len(call.result) :
                         call.result[i].badge_id = "lucky_number"}) = 1

\* The evaluator has given lucky_number for a score of 1777.
C19_Witness ==
  /\ Returned("checkAndAwardBadges")
  /\ call.held = <<>>
  /\ call.score = 1777
  /\ hasBadge(call.result, "alice", "lucky_number")

\* The statistic a rule-table badge reads.
RuleStat(badgeId) ==
  CASE badgeId \in {"first_prediction", "veteran_10", "veteran_50", "veteran_100",
                    "veteran_500"} -> "totalPredictions"
    [] badgeId \in {"points_5k", "points_25k", "points_50k", "points_100k"} -> "totalScore"
    [] badgeId \in {"storm_survivor_5", "storm_survivor_12"} -> "uniqueStorms"
    [] OTHER -> "currentScore"

\* C20: shouldAwardBadge returns a boolean, which is false for every badge id
\* outside the rule table whatever the stats, and false for every badge id of
\* the rule table when the stats object lacks the statistic its rule reads.
C20_UnknownOrMissingIsFalse ==
  Returned("shouldAwardBadge") =>
    /\ call.result \in BOOLEAN
    /\ call.badgeId \notin RuleBadgeIds => call.result = FALSE
    /\ ( /\ call.badgeId \in RuleBadgeIds
         /\ RuleStat(call.badgeId) \notin DOMAIN call.stats ) => call.result = FALSE

\* An unknown badge id has been refused to stats that meet every threshold
\* they carry, and that lack one statistic.
C20_Witness ==
  /\ Returned("shouldAwardBadge")
  /\ call.badgeId = "unknown_badge"
  /\ DOMAIN call.stats = {"totalPredictions", "totalScore", "currentScore"}
  /\ call.stats.totalPredictions = 10
  /\ call.result = FALSE

\* C14: a submission that carries all seven fields and names the active storm
\* and the active checkpoint is not rejected, whatever the values of its
\* numeric fields; when its INSERT executes and no row holds its triple, the
\* answer is 201 and exactly one row, with null score and null actual_*
\* fields, is added.
C14_ValidSubmissionCreated ==
  [][ /\ \A u \in Users, s \in StormIds, tf \in Timeframes, f \in Forecasts :
           (SubmitPrediction(u, s, tf, f) /\ IsActive(s, tf, now)) =>
             /\ response' # Rejected400
             /\ inflight' = Append(inflight,
                   [username |-> u, stormId |-> s, timeframe |-> tf,
                    lat |-> f.lat, lon |-> f.lon,
                    windSpeed |-> f.windSpeed, pressure |-> f.pressure])
      /\ \A k \in 1..Len(inflight) :
           ( /\ inflight' = RemoveAt(inflight, k)
             /\ errorLog' = errorLog
             /\ ~Stored(predictions, inflight[k]) ) =>
             /\ response' = [endpoint |-> "predictions", status |-> 201]
             /\ Len(predictions') = Len(predictions) + 1
             /\ SubSeq(predictions', 1, Len(predictions)) = predictions
             /\ LET r == predictions'[Len(predictions')]
                IN  /\ r.username = inflight[k].username
                    /\ r.storm_id = inflight[k].stormId
                    /\ r.timeframe = inflight[k].timeframe
                    /\ r.score = NULL
                    /\ r.actual_lat = NULL
                    /\ r.actual_lon = NULL
                    /\ r.actual_wind_speed = NULL
                    /\ r.actual_pressure = NULL
    ]_vars

\* The evaluator has been invoked once for each UPDATE applied to row id,
\* but for the UPDATE a pass has just applied and is about to follow up.
EvaluatedOncePerUpdate ==
  \A id \in RowIds :
    LET pending == {i \in 1..MaxPasses :
                      passes[i].pc = "stats" /\ Head(passes[i].rows).id = id}
    IN  evals[id] + Cardinality(pending) = writes[id]

\* C12: in a Scoring Pass, a successful UPDATE of a prediction is followed,
\* before the pass does anything else, by one invocation of the Badge
\* Evaluator for that prediction: for its username and with the score just
\* persisted; a failed UPDATE is followed by no invocation for it.
C12_EvaluatorAfterEachUpdate ==
  [][ /\ \A i \in 1..MaxPasses :
           /\ ( /\ passes[i].pc = "update"
                /\ passes'[i] # passes[i]
                /\ writes'[Head(passes[i].rows).id] = writes[Head(passes[i].rows).id] + 1 ) =>
                /\ passes'[i].pc = "stats"
                /\ passes'[i].rows = passes[i].rows
                /\ evals' = evals
           /\ ( /\ passes[i].pc = "update"
                /\ passes'[i] # passes[i]
                /\ errorLog' = errorLog + 1 ) =>
                /\ evals' = evals
                /\ predictions' = predictions
                /\ passes'[i].pc # "stats"
      /\ \A id \in RowIds :
           evals'[id] # evals[id] =>
             /\ evals'[id] = evals[id] + 1
             /\ evals[id] < writes[id]
             /\ \E i \in 1..MaxPasses :
                  /\ passes[i].pc = "stats"
                  /\ Head(passes[i].rows).id = id
                  /\ Head(passes[i].rows).username = predictions[id].username
                  /\ predictions[id].score = TotalScore(Head(passes[i].rows),
                                                        passes[i].actualData)
      /\ EvaluatedOncePerUpdate'
    ]_vars

\* A pass is about to update the second prediction of its batch, and the
\* first one has been updated and evaluated once.
C12_Witness ==
  \E i \in 1..MaxPasses :
    /\ passes[i].pc = "update"
    /\ \E id \in RowIds :
         /\ id # Head(passes[i].rows).id
         /\ predictions[id].storm_id = passes[i].stormId
         /\ predictions[id].timeframe = passes[i].timeframe
         /\ writes[id] = 1
         /\ evals[id] = 1
         /\ writes[Head(passes[i].rows).id] = 0

Range(seq) == {seq[k] : k \in 1..Len(seq)}

\* The badges an evaluation of row id would give its user on the table tbl.
BadgesDue(tbl, id) ==
  Range(QualifyingBadges(UserStats(tbl, tbl[id].username), tbl[id].score))

\* C11: when a Scoring Pass for a checkpoint runs from its SELECT to its end
\* with persistence available and leaves nothing to do, every prediction of
\* that checkpoint is scored and its user holds every badge that the
\* evaluation of that prediction gives: work skipped by an earlier failure
\* has been made up for.
C11_SkippedWorkCompleted ==
  [][ \A i \in 1..MaxPasses :
        ( /\ passes[i].pc = "select"
          /\ passes'[i].pc = "idle"
          /\ errorLog' = errorLog ) =>
          \A id \in RowIds :
            ( /\ predictions[id].storm_id = passes[i].stormId
              /\ predictions[id].timeframe = passes[i].timeframe ) =>
              /\ predictions'[id].score # NULL
              /\ \A b \in BadgesDue(predictions', id) :
                   hasBadge(user_badges', predictions[id].username, b)
    ]_vars

\* The points rules: badge id and threshold.
PointsRules ==
  { <<"points_5k", 5000>>, <<"points_25k", 25000>>,
    <<"points_50k", 50000>>, <<"points_100k", 100000>> }

\* The users one of whose predictions has been scored since the process started.
ScoredInRun == {predictions[id].username : id \in {x \in RowIds : writes[x] >= 1}}

\* C13: when no persistence failure has occurred and every Scoring Pass has
\* returned, every user scored since startup whose total over scored
\* predictions is at or above a points threshold holds that threshold's badge.
C13_PointsBadgesHeld ==
  (errorLog = 0 /\ AllIdle) =>
    \A u \in ScoredInRun :
      \A r \in PointsRules :
        UserStats(predictions, u).totalScore >= r[2] => hasBadge(user_badges, u, r[1])

\* One update has taken alice's total from 24000 to above 25000 and she has
\* received points_5k and points_25k, which she did not hold before.
C13_Witness ==
  /\ errorLog = 0
  /\ AllIdle
  /\ "alice" \in ScoredInRun
  /\ Len(predictions) = 13
  /\ UserStats(predictions, "alice").totalScore > 25000
  /\ hasBadge(user_badges, "alice", "points_5k")
  /\ hasBadge(user_badges, "alice", "points_25k")

\* C23 (as stated): for every error magnitude e > 0,
\* intensityScore(e, 0) > intensityScore(0, e).
C23_WindAlwaysMoreForgiving ==
  ( /\ Returned("calculateIntensityScore")
    /\ call.windError > 0
    /\ call.pressureError = 0 ) =>
    call.result > calculateIntensityScore(0, call.windError)

\* The largest whole error at which a wind error still costs fewer points
\* than a pressure error of the same size.
LastForgivingError ==
  CHOOSE e \in IntensityErrors :
    /\ e > 0
    /\ \A x \in 1..e : calculateIntensityScore(x, 0) > calculateIntensityScore(0, x)
    /\ e + 1 \in IntensityErrors
    /\ ~(calculateIntensityScore(e + 1, 0) > calculateIntensityScore(0, e + 1))

\* C23 (amended): for every whole error e from 1 to 45,
\* intensityScore(e, 0) > intensityScore(0, e).
C23_WindMoreForgivingUpTo45 ==
  ( /\ Returned("calculateIntensityScore")
    /\ call.windError >= 1
    /\ call.windError <= 45
    /\ call.pressureError = 0 ) =>
    call.result > calculateIntensityScore(0, call.windError)

\* intensityScore(45, 0) has returned 644, above intensityScore(0, 45) = 642.
C23_Witness ==
  /\ Returned("calculateIntensityScore")
  /\ call.windError = 45
  /\ call.pressureError = 0
  /\ call.result = 644
  /\ calculateIntensityScore(0, 45) = 642
  /\ LastForgivingError = 45

\* C24 (as stated): trackScore(0) = 1000, every result is a non-negative
\* integer, and for all 0 <= x < y, trackScore(x) > trackScore(y).
C24_TrackStrictlyDecreasing ==
  Returned("calculateTrackScore") =>
    /\ call.result \in Nat
    /\ call.distanceErrorNM = 0 => call.result = 1000
    /\ \A y \in TrackErrors :
         call.distanceErrorNM < y => call.result > calculateTrackScore(y)

\* C24 (amended): trackScore(0) = 1000, every result is a non-negative
\* integer, and for all 0 <= x < y, trackScore(x) >= trackScore(y).
C24_TrackNonIncreasing ==
  Returned("calculateTrackScore") =>
    /\ call.result \in Nat
    /\ call.distanceErrorNM = 0 => call.result = 1000
    /\ \A y \in TrackErrors :
         call.distanceErrorNM < y => call.result >= calculateTrackScore(y)

\* trackScore(237 NM) has returned the same score as trackScore(238 NM),
\* below trackScore(236 NM).
C24_Witness ==
  /\ Returned("calculateTrackScore")
  /\ call.distanceErrorNM = 23700
  /\ call.result = calculateTrackScore(23800)
  /\ call.result < calculateTrackScore(23600)

\* C27: for all w and p, intensityScore(w, p) = intensityScore(-w, p) =
\* intensityScore(w, -p) = intensityScore(-w, -p), and intensityScore(0, 0) = 1000.
C27_IntensitySignSymmetric ==
  Returned("calculateIntensityScore") =>
    /\ call.result = calculateIntensityScore(0 - call.windError, call.pressureError)
    /\ call.result = calculateIntensityScore(call.windError, 0 - call.pressureError)
    /\ call.result = calculateIntensityScore(0 - call.windError, 0 - call.pressureError)
    /\ (call.windError = 0 /\ call.pressureError = 0) => call.result = 1000

\* intensityScore(-10, -5) has returned what intensityScore(10, 5) returns,
\* a score below 1000.
C27_Witness ==
  /\ Returned("calculateIntensityScore")
  /\ call.windError = 0 - 10
  /\ call.pressureError = 0 - 5
  /\ call.result = calculateIntensityScore(10, 5)
  /\ call.result < 1000

\* C28: for all points a and b, distance(a, b) = distance(b, a) and
\* distance(a, a) = 0.
C28_DistanceSymmetricZeroOnSame ==
  Returned("calculateDistance") =>
    /\ call.result = calculateDistance(call.b[1], call.b[2], call.a[1], call.a[2])
    /\ call.a = call.b => call.result = 0

\* The distance between two points on either side of the equator has been
\* returned and is not zero.
C28_Witness ==
  /\ Returned("calculateDistance")
  /\ call.a = <<0 - 100, 0 - 800>>
  /\ call.b = <<100, 0 - 800>>
  /\ call.result > 0

\* The rotation function the call under evaluation is a call of.
Rotation(storms, t) ==
  IF call.fn = "getCurrentDayStorm" THEN getCurrentDayStorm(storms, t)
  ELSE getCurrentWeekStorm(storms, t)

\* The position (from 0) of a storm in a schedule; -1 if it is not in it.
PositionIn(storms, storm) ==
  IF \E i \in 1..Len(storms) : storms[i] = storm
  THEN (CHOOSE i \in 1..Len(storms) : storms[i] = storm) - 1
  ELSE 0 - 1

\* C26: at every instant at or after the epoch the rotation returns the storm
\* at an index in 0..N-1 of the schedule; the index is 0 in the first period,
\* the same as at the previous instant unless a period boundary lies between
\* them, and one more (N-1 wrapping to 0) than it was one period earlier.
C26_RotationByElapsedPeriods ==
  ( /\ (Returned("getCurrentDayStorm") \/ Returned("getCurrentWeekStorm"))
    /\ call.now >= referenceDate ) =>
    LET n == Len(call.storms)
        index == PositionIn(call.storms, call.result)
        elapsed == call.now - referenceDate
    IN  /\ index \in 0..(n - 1)
        /\ elapsed < call.period => index = 0
        /\ elapsed % call.period # 0 =>
             call.result = Rotation(call.storms, call.now - 1)
        /\ elapsed >= call.period =>
             index = (PositionIn(call.storms,
                                 Rotation(call.storms, call.now - call.period)) + 1) % n

\* At the first instant of the fourth week the weekly rotation over three
\* storms has wrapped around to the first storm.
C26_Witness ==
  /\ Returned("getCurrentWeekStorm")
  /\ call.storms = <<Irma, Wilma, Ian>>
  /\ call.now = referenceDate + 3 * WeekLength
  /\ call.result = Irma
  /\ getCurrentWeekStorm(call.storms, call.now - 1) = Ian

\* The prediction of row r equals the actual values stored on the row.
MatchesActual(r) ==
  /\ r.predicted_lat = r.actual_lat
  /\ r.predicted_lon = r.actual_lon
  /\ r.predicted_wind_speed = r.actual_wind_speed
  /\ r.predicted_pressure = r.actual_pressure

\* C22: every non-null score stored on a prediction is an integer in 0..2000
\* equal to trackScore + intensityScore of the row's distance, wind and
\* pressure errors against the actual values stored on the same row, each
\* component being an integer in 0..1000; a prediction identical to the actual
\* values has score 2000.
C22_StoredScoreIsTrackPlusIntensity ==
  \A id \in RowIds :
    LET r == predictions[id]
    IN  r.score # NULL =>
          LET distanceError == calculateDistance(r.predicted_lat, r.predicted_lon,
                                                 r.actual_lat, r.actual_lon)
              trackScore == calculateTrackScore(distanceError)
              intensityScore ==
                calculateIntensityScore(r.predicted_wind_speed - r.actual_wind_speed,
                                        r.predicted_pressure - r.actual_pressure)
          IN  /\ trackScore \in 0..1000
              /\ intensityScore \in 0..1000
              /\ r.score = trackScore + intensityScore
              /\ r.score \in 0..2000
              /\ MatchesActual(r) => r.score = 2000

\* A Scoring Pass has scored one exact forecast with 2000 points and another
\* forecast for the same checkpoint with fewer.
C22_Witness ==
  \E i, j \in RowIds :
    /\ writes[i] >= 1
    /\ MatchesActual(predictions[i])
    /\ predictions[i].score = 2000
    /\ writes[j] >= 1
    /\ predictions[j].score # NULL
    /\ predictions[j].score < 2000

\* The usernames with at least one scored prediction for stormId.
Scorers(stormId) ==
  { predictions[i].username :
      i \in {x \in RowIds : /\ predictions[x].storm_id = stormId
                            /\ predictions[x].score # NULL} }

\* The sum of the scores of username's scored predictions for stormId.
StormTotal(username, stormId) ==
  SumScores(predictions, {x \in RowIds : /\ predictions[x].username = username
                                         /\ predictions[x].storm_id = stormId
                                         /\ predictions[x].score # NULL})

\* C21: the leaderboard of a storm lists exactly the usernames that have a
\* scored prediction for the storm, each once and with the sum of the scores
\* of their scored predictions for it, in non-increasing order of the sum,
\* cut after the first 100: a username left out has a sum not above the last
\* one listed.
C21_LeaderboardOfScoredRows ==
  (response.endpoint = "leaderboard" /\ response.status = 200) =>
    LET lb == response.leaderboard
        s == response.stormId
        listed == {lb[k].username : k \in 1..Len(lb)}
    IN  /\ listed \subseteq Scorers(s)
        /\ \A j, k \in 1..Len(lb) : lb[j].username = lb[k].username => j = k
        /\ Len(lb) = IF Cardinality(Scorers(s)) > 100 THEN 100
                     ELSE Cardinality(Scorers(s))
        /\ \A k \in 1..Len(lb) : lb[k].total_score = StormTotal(lb[k].username, s)
        /\ \A k \in 1..(Len(lb) - 1) : lb[k].total_score >= lb[k + 1].total_score
        /\ \A u \in Scorers(s) \ listed : StormTotal(u, s) <= lb[Len(lb)].total_score

\* The leaderboard of a storm with 101 scorers has been answered with 100
\* entries, the perfect score first.
C21_Witness ==
  /\ response.endpoint = "leaderboard"
  /\ response.status = 200
  /\ Cardinality(Scorers(response.stormId)) = 101
  /\ Len(response.leaderboard) = 100
  /\ response.leaderboard[1].total_score = 2000

\* The instants at which the timer has fired since the process started.
TickTimes == (now - uptime + 1)..now

\* The pass in slot i applies the UPDATE of row id in this step.
Updates(i, id) ==
  /\ passes[i].pc = "update"
  /\ passes'[i].pc = "stats"
  /\ Head(passes[i].rows).id = id

\* The process started too late for any tick to fall in the hour that follows
\* the closing boundary of the checkpoint.
MissedByTimer(stormId, timeframe) ==
  Closing(stormId, timeframe) + PollsPerHour <= now - uptime + 1

\* C25 (as stated): a prediction is scored by the timer only if a tick has
\* executed during the polling interval that follows the closing boundary of
\* its checkpoint; otherwise it stays unscored until a manual trigger for its
\* storm and checkpoint scores it.
C25_MissedFirstTickNeverScored ==
  [][ \A id \in RowIds :
        (predictions[id].score = NULL /\ predictions'[id].score # NULL) =>
          \E i \in 1..MaxPasses :
            /\ Updates(i, id)
            /\ passes[i].stormId = predictions[id].storm_id
            /\ passes[i].timeframe = predictions[id].timeframe
            /\ \/ passes[i].origin = "admin"
               \/ Closing(predictions[id].storm_id, predictions[id].timeframe) \in TickTimes
    ]_vars

\* C25 (amended): a prediction is scored by the timer only if a tick has
\* executed during the hour that follows the closing boundary of its
\* checkpoint, and the timer starts the pass of a checkpoint only in that
\* hour; otherwise the prediction stays unscored until a manual trigger for
\* its storm and checkpoint scores it: when the pass of a manual trigger for
\* a checkpoint the timer has missed returns, every prediction of that storm
\* and checkpoint has a score.
C25_MissedHourNeverScored ==
  [][ /\ \A id \in RowIds :
           (predictions[id].score = NULL /\ predictions'[id].score # NULL) =>
             \E i \in 1..MaxPasses :
               /\ Updates(i, id)
               /\ passes[i].stormId = predictions[id].storm_id
               /\ passes[i].timeframe = predictions[id].timeframe
               /\ \/ passes[i].origin = "admin"
                  \/ \E t \in TickTimes :
                       LET b == Closing(predictions[id].storm_id, predictions[id].timeframe)
                       IN  b <= t /\ t < b + PollsPerHour
      /\ \A k \in LoadedIds \X Timeframes :
           invoked'[k] > invoked[k] =>
             /\ Closing(k[1], k[2]) <= now'
             /\ now' < Closing(k[1], k[2]) + PollsPerHour
      /\ \A i \in 1..MaxPasses :
           ( /\ passes[i].origin = "admin"
             /\ passes[i].pc # "idle"
             /\ passes'[i].pc = "idle"
             /\ MissedByTimer(passes[i].stormId, passes[i].timeframe) ) =>
             \A id \in RowIds :
               ( /\ predictions[id].storm_id = passes[i].stormId
                 /\ predictions[id].timeframe = passes[i].timeframe ) =>
                 predictions'[id].score # NULL
    ]_vars

\* The process came back after the hour that follows the 0600 boundary had
\* begun to run out, the timer never started the pass of that checkpoint, and
\* a manual trigger has scored its predictions.
C25_Witness ==
  /\ MissedByTimer("katrina-2005", "0600")
  /\ uptime >= 2
  /\ invoked[<<"katrina-2005", "0600">>] = 0
  /\ AllIdle
  /\ \A id \in RowIds : predictions[id].timeframe = "0600" => predictions[id].score # NULL
  /\ \E id \in RowIds : predictions[id].timeframe = "0600" /\ writes[id] >= 1

\* The count rules: badge id and threshold.
CountRules ==
  { <<"first_prediction", 1>>, <<"veteran_10", 10>>, <<"veteran_50", 50>>,
    <<"veteran_100", 100>>, <<"veteran_500", 500>> }

\* C29: a user's count of scored predictions grows by one between two
\* evaluations, so that no count threshold is skipped: when every Scoring Pass
\* has returned, every user scored since startup whose count has reached a
\* threshold holds the badge of that threshold, also when passes overlap.
C29_CountBadgesHeld ==
  AllIdle =>
    \A u \in ScoredInRun :
      \A r \in CountRules :
        UserStats(predictions, u).totalPredictions >= r[2] => hasBadge(user_badges, u, r[1])

\* C30: at most one Scoring Pass started by the timer is running at any time.
C30_OneTickAtATime ==
  Cardinality({i \in 1..MaxPasses : passes[i].pc # "idle" /\ passes[i].origin = "timer"}) <= 1

\* The time from the instant ticksSinceStart to the next unlock of a
\* checkpoint, in polling intervals: to gameStart before the game, to the next
\* of the four boundaries during it, none after it.
TimeToNextUnlock(ticksSinceStart) ==
  IF ticksSinceStart < 0 THEN 0 - ticksSinceStart
  ELSE IF ticksSinceStart >= 24 * PollsPerHour THEN 0
  ELSE 6 * PollsPerHour - (ticksSinceStart % (6 * PollsPerHour))

\* C31: GET /game/state reports as nextUnlockHours the time until the next
\* checkpoint unlocks (until gameStart before the game, until the next
\* boundary during it, 0 after it), more than 0 and at most 6 hours whenever a
\* checkpoint is active, and as active checkpoint the one getActiveTimeframe
\* gives for the same instant.
C31_NextUnlockIsTimeToNextCheckpoint ==
  (response.endpoint = "game/state" /\ response.status = 200) =>
    LET currentStorm == getCurrentStorm(HISTORICAL_STORMS, now)
        ticksSinceStart == now - currentStorm.gameStart
    IN  /\ response.activeTimeframe = getActiveTimeframe(currentStorm, now)
        /\ response.nextUnlockHours = ToFixed1(TimeToNextUnlock(ticksSinceStart))
        /\ response.activeTimeframe # NoTimeframe =>
             (0 < response.nextUnlockHours /\ response.nextUnlockHours <= 60)

\* With no schedule loaded the game clock reports no storm, no step creates a
\* record or starts or advances a Scoring Pass, every POST /predictions is
\* answered 400 and GET /game/state is answered 404.
DegradedStep ==
  /\ getCurrentStorm(HISTORICAL_STORMS', now') = NoStorm
  /\ predictions' = predictions
  /\ inflight' = inflight
  /\ user_badges' = user_badges
  /\ passes' = passes
  /\ invoked' = invoked
  /\ \A u \in Users, s \in StormIds, tf \in Timeframes, f \in Forecasts :
       SubmitPrediction(u, s, tf, f) => response' = Rejected400
  /\ response'.endpoint = "predictions" => response'.status = 400
  /\ response'.endpoint = "game/state" => response'.status = 404

PredictionRecords(stormId, label) ==
  { StormById(stormId).timeframes[k] : k \in
      { j \in 1..Len(StormById(stormId).timeframes) :
          /\ StormById(stormId).timeframes[j].timeframe = label
          /\ StormById(stormId).timeframes[j].type = "prediction" } }

\* C37: whenever a Scoring Pass runs, started by the timer or by the manual
\* trigger, the actual values it uses are those of the prediction-kind
\* checkpoint of its storm that carries its label; for "0000" they are never
\* those of the base checkpoint.
C37_PassUsesPredictionCheckpoint ==
  \A i \in 1..MaxPasses :
    passes[i].pc # "idle" =>
      /\ passes[i].stormId \in LoadedIds
      /\ passes[i].actualData \in PredictionRecords(passes[i].stormId, passes[i].timeframe)
      /\ passes[i].actualData.type # "base"

\* The timer has started a pass for "0000" of the first storm at its 24 h
\* boundary, and a pass of the manual trigger for "0000" has scored a
\* prediction.
C37_Witness ==
  /\ invoked[<<"katrina-2005", "0000">>] >= 1
  /\ \E i \in 1..MaxPasses :
       /\ passes[i].origin = "admin"
       /\ passes[i].timeframe = "0000"
       /\ passes[i].pc = "stats"

\* C34: every prediction has its score and its four actual_* columns all null
\* or all non-null; when non-null, the actual values are those of the
\* checkpoint record of the prediction's own storm and label against which
\* the pass scored it.
C34_ScoreAndActualsTogether ==
  \A id \in RowIds :
    LET r == predictions[id]
    IN  \/ /\ r.score = NULL
           /\ r.actual_lat = NULL
           /\ r.actual_lon = NULL
           /\ r.actual_wind_speed = NULL
           /\ r.actual_pressure = NULL
        \/ /\ r.score # NULL
           /\ r.actual_lat # NULL
           /\ r.actual_lon # NULL
           /\ r.actual_wind_speed # NULL
           /\ r.actual_pressure # NULL
           /\ r.storm_id \in LoadedIds
           /\ \E d \in PredictionRecords(r.storm_id, r.timeframe) :
                /\ r.actual_lat = d.lat
                /\ r.actual_lon = d.lon
                /\ r.actual_wind_speed = d.windSpeed
                /\ r.actual_pressure = d.pressure

\* Of two predictions for "0000" one has been scored and the other, inserted
\* later, has not.
C34_Witness ==
  \E a, b \in RowIds :
    /\ predictions[a].timeframe = "0000"
    /\ predictions[a].score # NULL
    /\ predictions[a].actual_pressure = 920
    /\ predictions[b].score = NULL
    /\ predictions[b].actual_lat = NULL

\* The columns of a prediction that the submission sets.
SubmittedColumns ==
  { "id", "username", "storm_id", "timeframe", "predicted_lat", "predicted_lon",
    "predicted_wind_speed", "predicted_pressure" }

\* C32: a Scoring Pass for a storm and checkpoint writes only the score and
\* actual_* columns of predictions of that storm and checkpoint whose score
\* was null when the pass read them; every other prediction is unchanged, no
\* prediction is removed, and the columns set at submission never change.
C32_PassWritesOnlyItsRows ==
  [][ /\ Len(predictions') >= Len(predictions)
      /\ \A id \in RowIds :
           /\ \A c \in SubmittedColumns : predictions'[id][c] = predictions[id][c]
           /\ predictions'[id] # predictions[id] =>
                \E i \in 1..MaxPasses :
                  /\ Updates(i, id)
                  /\ passes[i].stormId = predictions[id].storm_id
                  /\ passes[i].timeframe = predictions[id].timeframe
                  /\ Head(passes[i].rows).score = NULL
    ]_vars

\* A user's prediction for one checkpoint has been scored and the same user's
\* prediction for another checkpoint is still as it was submitted.
C32_Witness ==
  \E a, b \in RowIds :
    /\ predictions[a].username = predictions[b].username
    /\ predictions[a].timeframe # predictions[b].timeframe
    /\ writes[a] >= 1
    /\ predictions[a].score # NULL
    /\ writes[b] = 0
    /\ predictions[b].score = NULL
    /\ AllIdle

\* The stats object a caller of shouldAwardBadge builds from the stats row
\* of the evaluator and the score of the prediction just scored.
WithCurrentScore(stats, score) ==
  [totalPredictions |-> stats.totalPredictions, totalScore |-> stats.totalScore,
   uniqueStorms |-> stats.uniqueStorms, currentScore |-> score]

\* C36: for every stats row, every latest score from 0 to 2000 and every
\* badge of the rule table, checkAndAwardBadges inserts the badge for a user
\* who does not hold it if and only if shouldAwardBadge is true of the same
\* statistics with currentScore the latest score; a badge the user holds is
\* not inserted again.
C36_EvaluatorAgreesWithRuleFunction ==
  Returned("checkAndAwardBadges") =>
    \A b \in RuleBadgeIds :
      LET inserted == Cardinality({k \in 1..Len(call.result) :
                                     /\ call.result[k].username = "alice"
                                     /\ call.result[k].badge_id = b})
                      - Cardinality({k \in 1..Len(call.held) :
                                       /\ call.held[k].username = "alice"
                                       /\ call.held[k].badge_id = b})
      IN  IF hasBadge(call.held, "alice", b)
          THEN inserted = 0
          ELSE (inserted = 1) <=> shouldAwardBadge(WithCurrentScore(call.stats, call.score), b)

\* The evaluator has run on a stats row that meets a count rule, a points
\* rule and a storm rule with a latest score of 1777, for a user who holds
\* lucky_number: it has inserted the three milestone badges and no other.
C36_Witness ==
  /\ Returned("checkAndAwardBadges")
  /\ call.stats = [totalPredictions |-> 10, totalScore |-> 5000, uniqueStorms |-> 5]
  /\ call.score = 1777
  /\ call.held # <<>>
  /\ Len(call.result) = 4

\* The scores of the scored predictions of a user, and their sum.
ScoresOf(u) == {predictions[id].score : id \in {x \in RowIds :
                  predictions[x].username = u /\ predictions[x].score # NULL}}

TotalOf(u) ==
  SumScores(predictions, {x \in RowIds :
                            predictions[x].username = u /\ predictions[x].score # NULL})

\* C35: in every reachable state a user holds diamond_prediction, oracle,
\* perfect_storm or lucky_number only if one of the user's scored predictions
\* has a score of at least 1900, at least 1950, exactly 2000, or ending in
\* 777, and holds points_5k, points_25k, points_50k or points_100k only if
\* the sum of the user's scores is at or above that threshold.
C35_BadgesSound ==
  \A k \in 1..Len(user_badges) :
    LET u == user_badges[k].username
        b == user_badges[k].badge_id
    IN  /\ b = "diamond_prediction" => \E sc \in ScoresOf(u) : sc >= 1900
        /\ b = "oracle" => \E sc \in ScoresOf(u) : sc >= 1950
        /\ b = "perfect_storm" => \E sc \in ScoresOf(u) : sc = 2000
        /\ b = "lucky_number" => \E sc \in ScoresOf(u) : sc % 1000 = 777
        /\ \A r \in PointsRules : b = r[1] => TotalOf(u) >= r[2]

\* alice, who had 4000 points, has scored 1777 and holds lucky_number and
\* points_5k; bob has scored 2000 and holds the three badges of a perfect
\* score and no points badge.
C35_Witness ==
  /\ AllIdle
  /\ hasBadge(user_badges, "alice", "lucky_number")
  /\ hasBadge(user_badges, "alice", "points_5k")
  /\ TotalOf("alice") = 5777
  /\ hasBadge(user_badges, "bob", "perfect_storm")
  /\ hasBadge(user_badges, "bob", "oracle")
  /\ hasBadge(user_badges, "bob", "diamond_prediction")
  /\ ~hasBadge(user_badges, "bob", "points_5k")

====
